---- MODULE Spec2Model ----
(***************************************************************************)
(* A model of sftpplease: the SFTP session engine of sftp/session.go       *)
(* (reader, dispatcher, writer and per-handle worker goroutines, the       *)
(* handle table and the shutdown signal), of its handlers and error        *)
(* mapper taken one call at a time, of the wire codec and of the           *)
(* read-only wrapper.                                                      *)
(*                                                                         *)
(* A request is the decoded packet the reader got from ReadPacket.  The    *)
(* client numbers its requests 1, 2, 3, ... in the order it writes them,   *)
(* so the ID of a request is also its position on the wire.  INIT carries  *)
(* no ID; the model gives it ID 0, as the VERSION reply.                   *)
(***************************************************************************)
EXTENDS Integers, Sequences, FiniteSets, TLC

(***************************************************************************)
(* Bounds of the model.                                                    *)
(***************************************************************************)
\* Number of requests the client writes before the stream ends.
MaxReqs == 3
\* Capacity of the inbox and outbox channels (16 in Serve; scaled down so
\* that full channels, and senders blocked on them, are reached).
InboxCap == 2
OutboxCap == 2
\* Options.MaxFiles is drawn from 1..MaxMaxFiles.
MaxMaxFiles == 1
\* The client names the handles Itoa(0) .. Itoa(MaxHandleArg).
MaxHandleArg == 1
\* Number of calls made on a ReadOnlyVFS and its files.
MaxROCalls == 3
\* The field values of the FileStat inputs are built from 1..MaxFieldSeed.
MaxFieldSeed == 3
\* Number of READDIR requests sent on one directory handle.
MaxReaddirs == 5
\* The chunk size of an Upload (80 MiB in the code), the number of bytes
\* written to one Upload, and the length of the buffer of one Write.
chunkSize == 3
MaxUpload == 7
MaxWrite == 4
\* Number of WriteAt calls on one dropbox FileHandle, and the length of
\* the buffer of one call.
MaxWriteAts == 3
MaxBuf == 2
\* The most invocations of its operation by one doWithRetry.
MaxInvocations == 3

(***************************************************************************)
(* Program constants.                                                      *)
(***************************************************************************)
FX_OK == 0
FX_EOF == 1
FX_NO_SUCH_FILE == 2
FX_PERMISSION_DENIED == 3
FX_FAILURE == 4
FX_OP_UNSUPPORTED == 8

FXF_READ == 1
FXF_WRITE == 2
FXF_APPEND == 4
FXF_CREAT == 8
FXF_TRUNC == 16
FXF_EXCL == 32

FILEXFER_ATTR_SIZE == 1
FILEXFER_ATTR_PERMISSIONS == 4
FILEXFER_ATTR_ACMODTIME == 8

\* The largest READ length the worker accepts (1024*1024).
MaxReadLen == 1048576
\* Number of goroutines Serve waits for (three wg.Add(1)).
NumTasks == 3

(***************************************************************************)
(* Integer helpers: bit operations on non-negative integers, and the       *)
(* decimal formatting of fmt.Sprintf("%d", n).                             *)
(***************************************************************************)
RECURSIVE BitAnd(_, _)
BitAnd(a, b) ==
    IF a = 0 \/ b = 0 THEN 0
    ELSE (IF a % 2 = 1 /\ b % 2 = 1 THEN 1 ELSE 0) + 2 * BitAnd(a \div 2, b \div 2)

\* a &^ m (a &= ^m)
BitClear(a, m) == a - BitAnd(a, m)

Digit(d) ==
    CASE d = 0 -> "0" [] d = 1 -> "1" [] d = 2 -> "2" [] d = 3 -> "3"
      [] d = 4 -> "4" [] d = 5 -> "5" [] d = 6 -> "6" [] d = 7 -> "7"
      [] d = 8 -> "8" [] d = 9 -> "9"

RECURSIVE Itoa(_)
Itoa(n) == IF n < 10 THEN Digit(n) ELSE Itoa(n \div 10) \o Digit(n % 10)

(***************************************************************************)
(* Packets.                                                                *)
(***************************************************************************)
\* Kinds whose handler makes VFS calls by path or replies directly.
PathKinds ==
    {"LSTAT", "STAT", "REMOVE", "RMDIR", "MKDIR", "RENAME", "REALPATH",
     "READLINK", "SYMLINK", "OPENDIR"}

\* Kinds that carry a handle string.
HandleKinds == {"CLOSE", "FSTAT", "READDIR", "WRITE", "READ", "FSETSTAT"}

Req(kind, id, handle, pflags, attrflags, len) ==
    [kind |-> kind, id |-> id, handle |-> handle, pflags |-> pflags,
     attrflags |-> attrflags, len |-> len]

NoReq == Req("none", 0, "", 0, 0, 0)

HandleArgs == {Itoa(i) : i \in 0..MaxHandleArg}

\* pflags of an OPEN: read, write|create, and read with a bit the server
\* does not know.
PflagsSamples == {FXF_READ, FXF_WRITE + FXF_CREAT, FXF_READ + 64}

\* attrs.Flags of a SETSTAT.
AttrFlagSamples ==
    {0, FILEXFER_ATTR_PERMISSIONS, FILEXFER_ATTR_PERMISSIONS + FILEXFER_ATTR_SIZE,
     FILEXFER_ATTR_ACMODTIME}

\* Len of a READ: a small one, and one over the limit.
ReadLens == {5, MaxReadLen + 1}

\* The packets ReadPacket can decode as the id-th request on the wire.
Requests(id) ==
    {Req("INIT", 0, "", 0, 0, 0)}
      \cup {Req(k, id, "", 0, 0, 0) : k \in PathKinds}
      \cup {Req("OPEN", id, "", pf, 0, 0) : pf \in PflagsSamples}
      \cup {Req("SETSTAT", id, "", 0, fl, 0) : fl \in AttrFlagSamples}
      \cup {Req(k, id, h, 0, 0, 0) : k \in HandleKinds \ {"READ"}, h \in HandleArgs}
      \cup {Req("READ", id, h, 0, 0, l) : h \in HandleArgs, l \in ReadLens}

\* A response packet.  Lang is the zero value in every status the program
\* makes: MakeStatus does not set it.
Resp(type, id, code, msg, handle) ==
    [type |-> type, id |-> id, code |-> code, msg |-> msg, lang |-> "",
     handle |-> handle]

NoResp == Resp("none", 0, 0, "", "")

MakeStatus(id, msg, code) == Resp("STATUS", id, code, msg, "")

\* An error value is named by the variable that holds it (io.EOF is
\* "EOF", os.ErrNotExist is "ErrNotExist", the sentinels of the session
\* are "ErrInvalidHandle" and so on); "PathError(E)" is an *os.PathError
\* of the operation "stat" on the path "/x" around the errno E, as the os
\* package returns it.
\* err.Error()
ErrorText(err) ==
    CASE err = "EOF" -> "EOF"
      [] err = "ErrNotExist" -> "file does not exist"
      [] err = "ErrPermission" -> "permission denied"
      [] err = "ErrUnsupported" -> "unsupported operation"
      [] err = "ErrInvalidHandle" -> "invalid handle"
      [] err = "ErrBadRead" -> "bad read"
      [] err = "ErrTooManyOpenFiles" -> "too many open files"
      [] err = "PathError(ENOENT)" -> "stat /x: no such file or directory"
      [] err = "PathError(EACCES)" -> "stat /x: permission denied"
      [] err = "ErrUnexpectedEOF" -> "unexpected EOF"
      [] OTHER -> "input/output error"

\* os.IsPermission(err): the error inside a PathError is looked at.
IsPermission(err) == err \in {"ErrPermission", "PathError(EACCES)"}

\* The status respondError hands to Respond.
respondError(respId, err) ==
    IF err = "EOF" THEN MakeStatus(respId, ErrorText(err), FX_EOF)
    ELSE IF err = "ErrNotExist" THEN MakeStatus(respId, ErrorText(err), FX_NO_SUCH_FILE)
    ELSE IF IsPermission(err) THEN MakeStatus(respId, ErrorText(err), FX_PERMISSION_DENIED)
    ELSE IF err = "ErrUnsupported" THEN MakeStatus(respId, ErrorText(err), FX_OP_UNSUPPORTED)
    ELSE MakeStatus(respId, "error", FX_FAILURE)

\* The status respondOk hands to Respond.
respondOk(respId) == MakeStatus(respId, "", FX_OK)

(***************************************************************************)
(* The wire codec (package protosftp).  A byte is an integer in 0..255; a  *)
(* byte slice and a Go string are sequences of bytes.  A uint32 is an      *)
(* integer, kept below 2^31 in every input of the model; a uint64 is the   *)
(* pair [hi, lo] of its 32-bit halves, which is how marshalUint64 writes   *)
(* it.  A decoder returns a record with the value, the rest of the buffer  *)
(* and the error ("nil" when there is none).                               *)
(***************************************************************************)
FXP_INIT == 1
FXP_VERSION == 2
FXP_OPEN == 3
FXP_CLOSE == 4
FXP_READ == 5
FXP_WRITE == 6
FXP_LSTAT == 7
FXP_FSTAT == 8
FXP_SETSTAT == 9
FXP_FSETSTAT == 10
FXP_OPENDIR == 11
FXP_READDIR == 12
FXP_REMOVE == 13
FXP_MKDIR == 14
FXP_RMDIR == 15
FXP_REALPATH == 16
FXP_STAT == 17
FXP_RENAME == 18
FXP_READLINK == 19
FXP_SYMLINK == 20
FXP_STATUS == 101
FXP_HANDLE == 102
FXP_DATA == 103
FXP_NAME == 104
FXP_ATTRS == 105

FILEXFER_ATTR_UIDGID == 2

\* The largest frame length ReadPacket accepts (1024*1024).
MaxPacketLen == 1048576

\* byte(v >> k)
ByteOf(v, k) == (v \div (2 ^ k)) % 256

\* b[n:]
Drop(b, n) == SubSeq(b, n + 1, Len(b))

marshalUint32(b, v) ==
    b \o <<ByteOf(v, 24), ByteOf(v, 16), ByteOf(v, 8), ByteOf(v, 0)>>

marshalUint64(b, v) == marshalUint32(marshalUint32(b, v.hi), v.lo)

marshalString(b, v) == marshalUint32(b, Len(v)) \o v

marshalStatus(b, err) ==
    marshalString(marshalString(marshalUint32(b, err.Code), err.Msg), err.Lang)

unmarshalUint32(b) ==
    [v |-> b[4] + b[3] * (2 ^ 8) + b[2] * (2 ^ 16) + b[1] * (2 ^ 24),
     b |-> Drop(b, 4)]

unmarshalUint32Safe(b) ==
    IF Len(b) < 4 THEN [v |-> 0, b |-> <<>>, err |-> "errShortPacket"]
    ELSE [v |-> unmarshalUint32(b).v, b |-> unmarshalUint32(b).b, err |-> "nil"]

unmarshalUint64(b) ==
    LET h == unmarshalUint32(b)
        l == unmarshalUint32(h.b)
    IN [v |-> [hi |-> h.v, lo |-> l.v], b |-> l.b]

unmarshalUint64Safe(b) ==
    IF Len(b) < 8 THEN [v |-> [hi |-> 0, lo |-> 0], b |-> <<>>, err |-> "errShortPacket"]
    ELSE [v |-> unmarshalUint64(b).v, b |-> unmarshalUint64(b).b, err |-> "nil"]

unmarshalStringSafe(b) ==
    LET n == unmarshalUint32Safe(b)
    IN IF n.err # "nil" THEN [v |-> <<>>, b |-> <<>>, err |-> n.err]
       ELSE IF n.v > Len(n.b) THEN [v |-> <<>>, b |-> <<>>, err |-> "errShortPacket"]
       ELSE [v |-> SubSeq(n.b, 1, n.v), b |-> Drop(n.b, n.v), err |-> "nil"]

unmarshalExtensionPair(b) ==
    LET name == unmarshalStringSafe(b)
        data == unmarshalStringSafe(name.b)
    IN IF name.err # "nil" THEN [v |-> [Name |-> <<>>, Data |-> <<>>], b |-> <<>>, err |-> name.err]
       ELSE [v |-> [Name |-> name.v, Data |-> data.v], b |-> data.b, err |-> data.err]

\* FileStat{}: the zero value.
EmptyFileStat ==
    [Flags |-> 0, Size |-> [hi |-> 0, lo |-> 0], Mode |-> 0, Mtime |-> 0, Atime |-> 0,
     UID |-> 0, GID |-> 0, Extended |-> <<>>]

marshalFileStat(b, stat) ==
    LET b0 == marshalUint32(b, stat.Flags)
        b1 == IF BitAnd(stat.Flags, FILEXFER_ATTR_SIZE) # 0
              THEN marshalUint64(b0, stat.Size) ELSE b0
        b2 == IF BitAnd(stat.Flags, FILEXFER_ATTR_UIDGID) # 0
              THEN marshalUint32(marshalUint32(b1, stat.UID), stat.GID) ELSE b1
        b3 == IF BitAnd(stat.Flags, FILEXFER_ATTR_PERMISSIONS) # 0
              THEN marshalUint32(b2, stat.Mode) ELSE b2
    IN IF BitAnd(stat.Flags, FILEXFER_ATTR_ACMODTIME) # 0
       THEN marshalUint32(marshalUint32(b3, stat.Atime), stat.Mtime) ELSE b3

\* The fields are read in the order flags, (uid, gid), permissions,
\* (atime, mtime), each assigned to its field of *stat as it is read: a
\* field whose read fails is set to 0, the fields read before it keep
\* what was read, and every field not reached keeps the value it had.
unmarshalFileStatSafe(b, stat) ==
    LET fl == unmarshalUint32Safe(b)
        s0 == [stat EXCEPT !.Flags = fl.v]
        hasUidGid == BitAnd(fl.v, FILEXFER_ATTR_UIDGID) # 0
        uid == unmarshalUint32Safe(fl.b)
        s1 == [s0 EXCEPT !.UID = uid.v]
        gid == unmarshalUint32Safe(uid.b)
        s2 == [s1 EXCEPT !.GID = gid.v]
        sA == IF hasUidGid THEN s2 ELSE s0
        b1 == IF hasUidGid THEN gid.b ELSE fl.b
        hasPerm == BitAnd(fl.v, FILEXFER_ATTR_PERMISSIONS) # 0
        mode == unmarshalUint32Safe(b1)
        s3 == [sA EXCEPT !.Mode = mode.v]
        sB == IF hasPerm THEN s3 ELSE sA
        b2 == IF hasPerm THEN mode.b ELSE b1
        hasTime == BitAnd(fl.v, FILEXFER_ATTR_ACMODTIME) # 0
        atime == unmarshalUint32Safe(b2)
        s4 == [sB EXCEPT !.Atime = atime.v]
        mtime == unmarshalUint32Safe(atime.b)
        s5 == [s4 EXCEPT !.Mtime = mtime.v]
        sC == IF hasTime THEN s5 ELSE sB
        b3 == IF hasTime THEN mtime.b ELSE b2
        failed(s, e) == [stat |-> s, b |-> <<>>, err |-> e]
    IN IF fl.err # "nil" THEN failed(s0, fl.err)
       ELSE IF hasUidGid /\ uid.err # "nil" THEN failed(s1, uid.err)
       ELSE IF hasUidGid /\ gid.err # "nil" THEN failed(s2, gid.err)
       ELSE IF hasPerm /\ mode.err # "nil" THEN failed(s3, mode.err)
       ELSE IF hasTime /\ atime.err # "nil" THEN failed(s4, atime.err)
       ELSE IF hasTime /\ mtime.err # "nil" THEN failed(s5, mtime.err)
       ELSE [stat |-> sC, b |-> b3, err |-> "nil"]

\* The packet types whose wire form is a tag, an ID and one string: the
\* tag and the name of the string field.
IDStringPackets ==
    [FxpReaddirPacket |-> [tag |-> FXP_READDIR, field |-> "Handle"],
     FxpOpendirPacket |-> [tag |-> FXP_OPENDIR, field |-> "Path"],
     FxpLstatPacket |-> [tag |-> FXP_LSTAT, field |-> "Path"],
     FxpStatPacket |-> [tag |-> FXP_STAT, field |-> "Path"],
     FxpFstatPacket |-> [tag |-> FXP_FSTAT, field |-> "Handle"],
     FxpClosePacket |-> [tag |-> FXP_CLOSE, field |-> "Handle"],
     FxpRemovePacket |-> [tag |-> FXP_REMOVE, field |-> "Filename"],
     FxpRmdirPacket |-> [tag |-> FXP_RMDIR, field |-> "Path"],
     FxpReadlinkPacket |-> [tag |-> FXP_READLINK, field |-> "Path"],
     FxpRealpathPacket |-> [tag |-> FXP_REALPATH, field |-> "Path"]]

\* The packet types whose wire form is a tag, an ID and two strings.
TwoStringPackets ==
    [FxpSymlinkPacket |-> [tag |-> FXP_SYMLINK, first |-> "Targetpath", second |-> "Linkpath"],
     FxpRenamePacket |-> [tag |-> FXP_RENAME, first |-> "Oldpath", second |-> "Newpath"]]

\* The packet types whose wire form is a tag, an ID, one string and a
\* FileStat.
IDStringAttrsPackets ==
    [FxpMkdirPacket |-> [tag |-> FXP_MKDIR, field |-> "Path"],
     FxpSetStatPacket |-> [tag |-> FXP_SETSTAT, field |-> "Path"],
     FxpFSetStatPacket |-> [tag |-> FXP_FSETSTAT, field |-> "Handle"]]

\* The zero value of a packet type (&FxpOpenPacket{} and so on).
ZeroPacket(t) ==
    CASE t \in {"FxpInitPacket", "FxVersionPacket"} ->
           [type |-> t, Version |-> 0, Extensions |-> <<>>]
      [] t \in DOMAIN IDStringPackets ->
           [type |-> t, ID |-> 0] @@ (IDStringPackets[t].field :> <<>>)
      [] t \in DOMAIN TwoStringPackets ->
           [type |-> t, ID |-> 0] @@ (TwoStringPackets[t].first :> <<>>)
                                  @@ (TwoStringPackets[t].second :> <<>>)
      [] t \in DOMAIN IDStringAttrsPackets ->
           [type |-> t, ID |-> 0, Attrs |-> EmptyFileStat]
             @@ (IDStringAttrsPackets[t].field :> <<>>)
      [] t = "FxpOpenPacket" ->
           [type |-> t, ID |-> 0, Path |-> <<>>, Pflags |-> 0, Attrs |-> EmptyFileStat]
      [] t = "FxpReadPacket" ->
           [type |-> t, ID |-> 0, Handle |-> <<>>, Offset |-> [hi |-> 0, lo |-> 0], Len |-> 0]
      [] t = "FxpWritePacket" ->
           [type |-> t, ID |-> 0, Handle |-> <<>>, Offset |-> [hi |-> 0, lo |-> 0],
            Length |-> 0, Data |-> <<>>]
      [] t = "FxpStatResponse" -> [type |-> t, ID |-> 0, Info |-> EmptyFileStat]
      [] t = "FxpNamePacket" -> [type |-> t, ID |-> 0, NameAttrs |-> <<>>]
      [] t = "FxpHandlePacket" -> [type |-> t, ID |-> 0, Handle |-> <<>>]
      [] t = "FxpStatusPacket" ->
           [type |-> t, ID |-> 0, StatusError |-> [Code |-> 0, Msg |-> <<>>, Lang |-> <<>>]]
      [] t = "FxpDataPacket" -> [type |-> t, ID |-> 0, Length |-> 0, Data |-> <<>>]

marshalIDString(packetType, id, str) ==
    marshalString(marshalUint32(<<packetType>>, id), str)

\* unmarshalIDString(b, &id, &str): *id is assigned what was read of the
\* ID (0 when that failed); *str is assigned only when the ID was read,
\* and is empty when the string was short.
unmarshalIDString(b, id0, str0) ==
    LET id == unmarshalUint32Safe(b)
        str == unmarshalStringSafe(id.b)
    IN IF id.err # "nil" THEN [id |-> id.v, str |-> str0, err |-> id.err]
       ELSE [id |-> id.v, str |-> str.v, err |-> str.err]

\* for _, e := range p.Extensions { marshalString(Name); marshalString(Data) }
RECURSIVE marshalExtensions(_, _)
marshalExtensions(b, exts) ==
    IF exts = <<>> THEN b
    ELSE marshalExtensions(marshalString(marshalString(b, Head(exts).Name), Head(exts).Data),
                           Tail(exts))

\* for _, na := range p.NameAttrs { b = append(b, na.MarshalBinary()...) }
RECURSIVE marshalNameAttrs(_, _)
marshalNameAttrs(b, nas) ==
    IF nas = <<>> THEN b
    ELSE marshalNameAttrs(
             marshalFileStat(marshalString(marshalString(b, Head(nas).Name), Head(nas).LongName),
                             Head(nas).Attrs),
             Tail(nas))

\* p.MarshalBinary() of every packet type.
MarshalBinary(p) ==
    CASE p.type = "FxpInitPacket" ->
           marshalExtensions(marshalUint32(<<FXP_INIT>>, p.Version), p.Extensions)
      [] p.type = "FxVersionPacket" ->
           marshalExtensions(marshalUint32(<<FXP_VERSION>>, p.Version), p.Extensions)
      [] p.type \in DOMAIN IDStringPackets ->
           marshalIDString(IDStringPackets[p.type].tag, p.ID, p[IDStringPackets[p.type].field])
      [] p.type \in DOMAIN TwoStringPackets ->
           marshalString(marshalString(marshalUint32(<<TwoStringPackets[p.type].tag>>, p.ID),
                                       p[TwoStringPackets[p.type].first]),
                         p[TwoStringPackets[p.type].second])
      [] p.type \in DOMAIN IDStringAttrsPackets ->
           marshalFileStat(
               marshalString(marshalUint32(<<IDStringAttrsPackets[p.type].tag>>, p.ID),
                             p[IDStringAttrsPackets[p.type].field]),
               p.Attrs)
      [] p.type = "FxpOpenPacket" ->
           marshalFileStat(
               marshalUint32(marshalString(marshalUint32(<<FXP_OPEN>>, p.ID), p.Path), p.Pflags),
               p.Attrs)
      [] p.type = "FxpReadPacket" ->
           marshalUint32(
               marshalUint64(marshalString(marshalUint32(<<FXP_READ>>, p.ID), p.Handle), p.Offset),
               p.Len)
      [] p.type = "FxpWritePacket" ->
           marshalUint32(
               marshalUint64(marshalString(marshalUint32(<<FXP_WRITE>>, p.ID), p.Handle), p.Offset),
               p.Length) \o p.Data
      [] p.type = "FxpStatResponse" ->
           marshalFileStat(marshalUint32(<<FXP_ATTRS>>, p.ID), p.Info)
      [] p.type = "FxpNamePacket" ->
           marshalNameAttrs(marshalUint32(marshalUint32(<<FXP_NAME>>, p.ID), Len(p.NameAttrs)),
                            p.NameAttrs)
      [] p.type = "FxpHandlePacket" ->
           marshalString(marshalUint32(<<FXP_HANDLE>>, p.ID), p.Handle)
      [] p.type = "FxpStatusPacket" ->
           marshalStatus(marshalUint32(<<FXP_STATUS>>, p.ID), p.StatusError)
      [] p.type = "FxpDataPacket" ->
           marshalUint32(marshalUint32(<<FXP_DATA>>, p.ID), p.Length)
             \o SubSeq(p.Data, 1, p.Length)

\* for len(b) > 0 { ep, b, err = unmarshalExtensionPair(b); append }
RECURSIVE unmarshalExtensions(_, _)
unmarshalExtensions(b, exts) ==
    IF Len(b) = 0 THEN [v |-> exts, err |-> "nil"]
    ELSE LET ep == unmarshalExtensionPair(b)
         IN IF ep.err # "nil" THEN [v |-> exts, err |-> ep.err]
            ELSE unmarshalExtensions(ep.b, Append(exts, ep.v))

\* p.UnmarshalBinary(b) of every packet type: the packet it leaves in p,
\* and the error.  Every field is assigned as it is read, so that a
\* failed call leaves in p the fields read before the failure, the zero
\* value in the field whose read failed, and the old value in the rest.
UnmarshalBinary(p, b) ==
    LET id == unmarshalUint32Safe(b)
        str == unmarshalStringSafe(id.b)
        pID == IF p.type \in {"FxpInitPacket", "FxVersionPacket"} THEN p
               ELSE [p EXCEPT !.ID = id.v]
    IN CASE p.type = "FxpInitPacket" ->
              LET exts == unmarshalExtensions(id.b, p.Extensions)
                  pV == [p EXCEPT !.Version = id.v]
              IN IF id.err # "nil" THEN [pkt |-> pV, err |-> id.err]
                 ELSE [pkt |-> [pV EXCEPT !.Extensions = exts.v], err |-> exts.err]
         [] p.type = "FxVersionPacket" -> [pkt |-> p, err |-> "XXX: unimplemented"]
         [] p.type \in {"FxpStatResponse", "FxpHandlePacket"} ->
              [pkt |-> p, err |-> "unimplemented"]
         [] p.type \in {"FxpNamePacket", "FxpStatusPacket"} ->
              [pkt |-> p, err |-> "unimplemented XXX"]
         [] p.type \in DOMAIN IDStringPackets ->
              LET field == IDStringPackets[p.type].field
                  r == unmarshalIDString(b, p.ID, p[field])
              IN [pkt |-> [p EXCEPT !.ID = r.id, ![field] = r.str], err |-> r.err]
         [] p.type \in DOMAIN TwoStringPackets ->
              LET str2 == unmarshalStringSafe(str.b)
                  p1 == [pID EXCEPT ![TwoStringPackets[p.type].first] = str.v]
                  p2 == [p1 EXCEPT ![TwoStringPackets[p.type].second] = str2.v]
              IN IF id.err # "nil" THEN [pkt |-> pID, err |-> id.err]
                 ELSE IF str.err # "nil" THEN [pkt |-> p1, err |-> str.err]
                 ELSE [pkt |-> p2, err |-> str2.err]
         [] p.type \in DOMAIN IDStringAttrsPackets ->
              LET attrs == unmarshalFileStatSafe(str.b, p.Attrs)
                  p1 == [pID EXCEPT ![IDStringAttrsPackets[p.type].field] = str.v]
                  p2 == [p1 EXCEPT !.Attrs = attrs.stat]
              IN IF id.err # "nil" THEN [pkt |-> pID, err |-> id.err]
                 ELSE IF str.err # "nil" THEN [pkt |-> p1, err |-> str.err]
                 ELSE [pkt |-> p2, err |-> attrs.err]
         [] p.type = "FxpOpenPacket" ->
              LET pflags == unmarshalUint32Safe(str.b)
                  attrs == unmarshalFileStatSafe(pflags.b, p.Attrs)
                  p1 == [pID EXCEPT !.Path = str.v]
                  p2 == [p1 EXCEPT !.Pflags = pflags.v]
                  p3 == [p2 EXCEPT !.Attrs = attrs.stat]
              IN IF id.err # "nil" THEN [pkt |-> pID, err |-> id.err]
                 ELSE IF str.err # "nil" THEN [pkt |-> p1, err |-> str.err]
                 ELSE IF pflags.err # "nil" THEN [pkt |-> p2, err |-> pflags.err]
                 ELSE [pkt |-> p3, err |-> attrs.err]
         [] p.type = "FxpReadPacket" ->
              LET off == unmarshalUint64Safe(str.b)
                  len == unmarshalUint32Safe(off.b)
                  p1 == [pID EXCEPT !.Handle = str.v]
                  p2 == [p1 EXCEPT !.Offset = off.v]
                  p3 == [p2 EXCEPT !.Len = len.v]
              IN IF id.err # "nil" THEN [pkt |-> pID, err |-> id.err]
                 ELSE IF str.err # "nil" THEN [pkt |-> p1, err |-> str.err]
                 ELSE IF off.err # "nil" THEN [pkt |-> p2, err |-> off.err]
                 ELSE [pkt |-> p3, err |-> len.err]
         [] p.type = "FxpWritePacket" ->
              LET off == unmarshalUint64Safe(str.b)
                  len == unmarshalUint32Safe(off.b)
                  p1 == [pID EXCEPT !.Handle = str.v]
                  p2 == [p1 EXCEPT !.Offset = off.v]
                  p3 == [p2 EXCEPT !.Length = len.v]
              IN IF id.err # "nil" THEN [pkt |-> pID, err |-> id.err]
                 ELSE IF str.err # "nil" THEN [pkt |-> p1, err |-> str.err]
                 ELSE IF off.err # "nil" THEN [pkt |-> p2, err |-> off.err]
                 ELSE IF len.err # "nil" THEN [pkt |-> p3, err |-> len.err]
                 ELSE IF Len(len.b) < len.v THEN [pkt |-> p3, err |-> "errShortPacket"]
                 ELSE [pkt |-> [p3 EXCEPT !.Data = SubSeq(len.b, 1, len.v)], err |-> "nil"]
         [] p.type = "FxpDataPacket" ->
              LET len == unmarshalUint32Safe(id.b)
                  p1 == [pID EXCEPT !.Length = len.v]
              IN IF id.err # "nil" THEN [pkt |-> pID, err |-> id.err]
                 ELSE IF len.err # "nil" THEN [pkt |-> p1, err |-> len.err]
                 ELSE IF Len(len.b) < len.v THEN [pkt |-> p1, err |-> "truncated packet"]
                 ELSE [pkt |-> [p1 EXCEPT !.Data = SubSeq(len.b, 1, len.v)], err |-> "nil"]

\* WritePacket(w, m) on a writer that takes every byte: the bytes written.
WritePacket(m) == marshalUint32(<<>>, Len(MarshalBinary(m))) \o MarshalBinary(m)

\* A stream is the bytes it still holds and the error its Read returns
\* when they are used up (io.EOF, or a transport error).
\* io.ReadFull(r, buf) with len(buf) = n.
ReadFull(r, n) ==
    IF Len(r.data) >= n
    THEN [b |-> SubSeq(r.data, 1, n), err |-> "nil",
          r |-> [r EXCEPT !.data = Drop(r.data, n)]]
    ELSE [b |-> r.data,
          err |-> IF r.err = "EOF" /\ Len(r.data) > 0 THEN "ErrUnexpectedEOF" ELSE r.err,
          r |-> [r EXCEPT !.data = <<>>]]

\* The switch of ReadPacket: the packet type of a tag byte.
PacketTypeOfTag ==
    [t \in {FXP_INIT, FXP_LSTAT, FXP_OPEN, FXP_CLOSE, FXP_READ, FXP_WRITE, FXP_FSTAT,
            FXP_SETSTAT, FXP_FSETSTAT, FXP_OPENDIR, FXP_READDIR, FXP_REMOVE, FXP_MKDIR,
            FXP_RMDIR, FXP_REALPATH, FXP_STAT, FXP_RENAME, FXP_READLINK, FXP_SYMLINK} |->
       CASE t = FXP_INIT -> "FxpInitPacket"
         [] t = FXP_LSTAT -> "FxpLstatPacket"
         [] t = FXP_OPEN -> "FxpOpenPacket"
         [] t = FXP_CLOSE -> "FxpClosePacket"
         [] t = FXP_READ -> "FxpReadPacket"
         [] t = FXP_WRITE -> "FxpWritePacket"
         [] t = FXP_FSTAT -> "FxpFstatPacket"
         [] t = FXP_SETSTAT -> "FxpSetStatPacket"
         [] t = FXP_FSETSTAT -> "FxpFSetStatPacket"
         [] t = FXP_OPENDIR -> "FxpOpendirPacket"
         [] t = FXP_READDIR -> "FxpReaddirPacket"
         [] t = FXP_REMOVE -> "FxpRemovePacket"
         [] t = FXP_MKDIR -> "FxpMkdirPacket"
         [] t = FXP_RMDIR -> "FxpRmdirPacket"
         [] t = FXP_REALPATH -> "FxpRealpathPacket"
         [] t = FXP_STAT -> "FxpStatPacket"
         [] t = FXP_RENAME -> "FxpRenamePacket"
         [] t = FXP_READLINK -> "FxpReadlinkPacket"
         [] t = FXP_SYMLINK -> "FxpSymlinkPacket"]

\* A frame-length test that is off by one at both ends.
FrameLengthErrorOffByOne(l) ==
    IF l >= MaxPacketLen THEN "packet too large"
    ELSE IF l <= 2 THEN "packet too small"
    ELSE "nil"

\* The frame-length test of ReadPacket.
FrameLengthError(l) ==
    IF l > MaxPacketLen THEN "packet too large"
    ELSE IF l <= 1 THEN "packet too small"
    ELSE "nil"

\* ReadPacket(r): the packet and the error, with the number of header and
\* of body bytes it took from the stream.
ReadPacket(r) ==
    LET hdr == ReadFull(r, 4)
        l == unmarshalUint32(hdr.b).v
        body == ReadFull(hdr.r, l)
        pktType == body.b[1]
        un == UnmarshalBinary(ZeroPacket(PacketTypeOfTag[pktType]), Drop(body.b, 1))
        failed(e, n) == [pkt |-> "nil", err |-> e, hdrRead |-> Len(hdr.b), bodyRead |-> n]
    IN IF hdr.err # "nil" THEN failed(hdr.err, 0)
       ELSE IF FrameLengthError(l) # "nil" THEN failed(FrameLengthError(l), 0)
       ELSE IF body.err # "nil" THEN failed(body.err, Len(body.b))
       ELSE IF pktType \notin DOMAIN PacketTypeOfTag THEN failed("unhandled packet type", l)
       ELSE IF un.err # "nil" THEN failed(un.err, l)
       ELSE [pkt |-> un.pkt, err |-> "nil", hdrRead |-> 4, bodyRead |-> l]

\* The streams of the model: a header declaring a length of FrameLens,
\* followed by one of FrameBodies, on a stream that ends with io.EOF or
\* with a transport error; and streams that end inside the header.
Stream(data, err) == [data |-> data, err |-> err]

FrameLens == {0, 1, 2, 3, 5, 11, 12, MaxPacketLen - 1, MaxPacketLen, MaxPacketLen + 1, 2147483647}

\* STAT with ID 1 and the path "/x".
StatBody == <<FXP_STAT, 0, 0, 0, 1, 0, 0, 0, 2, 47, 120>>

FrameBodies ==
    {<<>>, <<FXP_STAT>>, <<FXP_STAT, 0>>, <<99, 0>>, <<FXP_INIT, 0, 0, 0, 3>>,
     StatBody, StatBody \o <<0>>}

StreamErrs == {"EOF", "EIO"}

StreamSamples ==
    {Stream(marshalUint32(<<>>, l) \o body, e) :
        l \in FrameLens, body \in FrameBodies, e \in StreamErrs}
      \cup {Stream(h, e) : h \in {<<>>, <<0, 0>>}, e \in StreamErrs}

\* What ReadPacket returns as its error on the streams of the model.
ReadPacketErrs == {ReadPacket(r).err : r \in StreamSamples}

(***************************************************************************)
(* State.                                                                  *)
(***************************************************************************)
VARIABLES
    optMaxFiles,  \* Options.MaxFiles
    optReadOnly,  \* the -read-only flag of main
    \* one function of the program (the codec, a handler, the error
    \* mapper), applied to one input
    cIn,          \* the input: a packet, a FileStat, a stream, a call
    cWire,        \* the bytes the encoder wrote
    cOut,         \* what the decoder, or the function called, returned
    cWire2,       \* the bytes of the decoded value encoded again
    cpc,          \* "idle", "start", "encoded", "decoded", "reencoded", "returned",
                  \* "open" (a directory handle is open), "upload" (an
                  \* Upload exists; cOut is its state), "file" (a dropbox
                  \* FileHandle exists), "dir" (a dropbox directory
                  \* handle exists)
    \* a ReadOnlyVFS and the ReadOnlyFiles it returned
    roUnder,      \* the calls the underlying VFS and its files received, in order
    roLast,       \* the last call made on the wrapper
    roRet,        \* the error that call returned
    roFiles,      \* number of ReadOnlyFile objects returned
    roN,          \* number of calls made on the wrapper
    \* channels and the shutdown signal
    inbox,        \* s.inbox: decoded requests, oldest first
    outbox,       \* s.outbox: responses, oldest first
    closed,       \* s.closed has been closed
    closeOnce,    \* s.closeOnce has run
    wg,           \* s.wg counter
    closedBy,     \* why the task that closed s.closed exited
    nCloses,      \* number of close(s.closed) calls made
    \* reader goroutine
    rpc,          \* "read" (in ReadPacket), "send" (in the select), "done"
    rReq,         \* the packet being sent to the inbox
    nRead,        \* number of packets ReadPacket has returned
    \* writer goroutine
    wrpc,         \* "select", "write" (in WritePacket), "failed", "done"
    wrCur,        \* the response being written
    \* dispatcher goroutine
    dpc,          \* "select", "call" (in a call of s.fs), "respond" (in Respond),
                  \* "forward" (in h.reqChan <- req), "done"
    dReq,         \* the request the running handler was called with
    dTo,          \* the worker the request is being forwarded to
    dResp,        \* the response being posted
    dErr,         \* the error the running handler passed to respondError
    vfsCalls,     \* the s.fs calls the running handler made, in order; in "call"
                  \* the last of them has not returned
    taken,        \* IDs of the id-carrying requests taken from the inbox
    \* handle table
    files,        \* s.files: handle string -> worker
    fcounter,     \* s.fcounter
    minted,       \* handle strings issued by newFileHandle, in order
    \* per-handle workers, indexed by the counter value they were made with
    wpc,          \* "none", "idle" (in range h.reqChan), "exec", "respond", "exited"
    wReq,         \* the request the worker is processing
    wResp,        \* the response the worker is posting
    fileOps,      \* the calls made on the worker's file f, in order: [id, op]
    fwd,          \* IDs of the requests forwarded to the worker, in order
    \* what was posted
    posted,       \* per packet ID, the number of responses sent to the outbox
    nOpenOk,      \* number of HANDLE responses sent to the outbox
    nCloseOk,     \* number of FX_OK responses to CLOSE sent to the outbox
    nCloseFwd     \* number of CLOSE requests forwarded to a worker

codecVars == <<cIn, cWire, cOut, cWire2, cpc>>
\* What no step of a session changes.
roVars == <<roUnder, roLast, roRet, roFiles, roN>>
fixedVars == <<optMaxFiles, optReadOnly, codecVars, roVars>>
chanVars == <<inbox, outbox>>
shutVars == <<closed, closeOnce, wg, closedBy, nCloses>>
readerVars == <<rpc, rReq, nRead>>
writerVars == <<wrpc, wrCur>>
dispVars == <<dpc, dReq, dTo, dResp, dErr, vfsCalls, taken>>
tableVars == <<files, fcounter, minted>>
workerVars == <<wpc, wReq, wResp, fileOps, fwd>>
histVars == <<posted, nOpenOk, nCloseOk, nCloseFwd>>

sessionVars ==
    <<chanVars, shutVars, readerVars, writerVars, dispVars, tableVars, workerVars,
      histVars>>

vars ==
    <<fixedVars, chanVars, shutVars, readerVars, writerVars, dispVars,
      tableVars, workerVars, histVars>>

Workers == 0..(MaxReqs - 1)

\* No codec run is in progress.
CodecIdle ==
    /\ cIn = <<>>
    /\ cWire = <<>>
    /\ cOut = <<>>
    /\ cWire2 = <<>>
    /\ cpc = "idle"

\* A call on a VFS or a File: the object, the method, and the flag
\* argument of OpenFile.
Call(on, op, flag) == [on |-> on, op |-> op, flag |-> flag]

NoCall == Call("none", "none", 0)

\* &ReadOnlyVFS{Fs: fs}: no call was made yet.
ROInit ==
    /\ roUnder = <<>>
    /\ roLast = NoCall
    /\ roRet = "nil"
    /\ roFiles = 0
    /\ roN = 0

\* Serve, up to s.wg.Wait(): the session s and its three goroutines.
ServeInit ==
    /\ inbox = <<>>
    /\ outbox = <<>>
    /\ closed = FALSE
    /\ closeOnce = FALSE
    /\ wg = NumTasks
    /\ closedBy = "none"
    /\ nCloses = 0
    /\ rpc = "read"
    /\ rReq = NoReq
    /\ nRead = 0
    /\ wrpc = "select"
    /\ wrCur = NoResp
    /\ dpc = "select"
    /\ dReq = NoReq
    /\ dTo = 0
    /\ dResp = NoResp
    /\ dErr = "nil"
    /\ vfsCalls = <<>>
    /\ taken = {}
    /\ files = [h \in {} |-> 0]
    /\ fcounter = 0
    /\ minted = <<>>
    /\ wpc = [n \in Workers |-> "none"]
    /\ wReq = [n \in Workers |-> NoReq]
    /\ wResp = [n \in Workers |-> NoResp]
    /\ fileOps = [n \in Workers |-> <<>>]
    /\ fwd = [n \in Workers |-> <<>>]
    /\ posted = [i \in 0..MaxReqs |-> 0]
    /\ nOpenOk = 0
    /\ nCloseOk = 0
    /\ nCloseFwd = 0

\* main without -read-only, then Serve.
Init ==
    /\ optMaxFiles \in 1..MaxMaxFiles
    /\ optReadOnly = FALSE
    /\ CodecIdle
    /\ ROInit
    /\ ServeInit

(***************************************************************************)
(* Shared pieces.                                                          *)
(***************************************************************************)
\* shutdown() with close(s.closed) outside closeOnce.Do.
shutdownNoOnce(cause) ==
    /\ closed' = TRUE
    /\ closeOnce' = TRUE
    /\ wg' = wg - 1
    /\ closedBy' = (IF closeOnce THEN closedBy ELSE cause)
    /\ nCloses' = nCloses + 1

\* The deferred shutdown() of a task that exits because of `cause`.
shutdown(cause) ==
    /\ closed' = (IF closeOnce THEN closed ELSE TRUE)
    /\ closeOnce' = TRUE
    /\ wg' = wg - 1
    /\ closedBy' = (IF closeOnce THEN closedBy ELSE cause)
    /\ nCloses' = (IF closeOnce THEN nCloses ELSE nCloses + 1)

\* Respond as a select with a default case: the response is dropped when
\* the outbox is full.
RespondNonBlocking(resp) ==
    IF Len(outbox) < OutboxCap
    THEN /\ outbox' = Append(outbox, resp)
         /\ posted' = [posted EXCEPT ![resp.id] = @ + 1]
    ELSE UNCHANGED <<outbox, posted>>

\* s.Respond(resp): a select between the shutdown signal and the send.
Respond(resp) ==
    \/ /\ closed
       /\ UNCHANGED <<outbox, posted>>
    \/ /\ Len(outbox) < OutboxCap
       /\ outbox' = Append(outbox, resp)
       /\ posted' = [posted EXCEPT ![resp.id] = @ + 1]

(***************************************************************************)
(* Reader goroutine.                                                       *)
(***************************************************************************)
\* A reader that breaks out of its loop without the deferred shutdown().
ReaderReadFailsQuietly ==
    /\ rpc = "read"
    /\ \E err \in ReadPacketErrs : err # "nil"
    /\ rpc' = "done"
    /\ UNCHANGED <<fixedVars, chanVars, shutVars, rReq, nRead, writerVars, dispVars,
                   tableVars, workerVars, histVars>>

\* ReadPacket returns an error (EOF, transport error, bad frame): break,
\* and the deferred shutdown() runs.
ReaderReadFails ==
    /\ rpc = "read"
    /\ \E err \in ReadPacketErrs : err # "nil"
    /\ rpc' = "done"
    /\ shutdown("ReadPacket")
    /\ UNCHANGED <<fixedVars, chanVars, rReq, nRead, writerVars, dispVars,
                   tableVars, workerVars, histVars>>

\* ReadPacket returns the next request.
ReaderRead ==
    /\ rpc = "read"
    /\ nRead < MaxReqs
    /\ \E req \in Requests(nRead + 1) :
          /\ rReq' = req
          /\ nRead' = nRead + 1
          /\ rpc' = "send"
    /\ UNCHANGED <<fixedVars, chanVars, shutVars, writerVars, dispVars,
                   tableVars, workerVars, histVars>>

\* select: case <-s.closed: return
ReaderSeesClosed ==
    /\ rpc = "send"
    /\ closed
    /\ rpc' = "done"
    /\ rReq' = NoReq
    /\ shutdown("closed")
    /\ UNCHANGED <<fixedVars, chanVars, nRead, writerVars, dispVars,
                   tableVars, workerVars, histVars>>

\* select: case s.inbox <- req
ReaderSend ==
    /\ rpc = "send"
    /\ Len(inbox) < InboxCap
    /\ inbox' = Append(inbox, rReq)
    /\ rpc' = "read"
    /\ rReq' = NoReq
    /\ UNCHANGED <<fixedVars, outbox, shutVars, nRead, writerVars, dispVars,
                   tableVars, workerVars, histVars>>

(***************************************************************************)
(* Writer goroutine.                                                       *)
(***************************************************************************)
\* select: case <-s.closed: return
WriterSeesClosed ==
    /\ wrpc = "select"
    /\ closed
    /\ wrpc' = "done"
    /\ shutdown("closed")
    /\ UNCHANGED <<fixedVars, chanVars, readerVars, wrCur, dispVars,
                   tableVars, workerVars, histVars>>

\* The outbox read as a stack: the newest response first.
OutboxRecvNewest ==
    [resp |-> outbox[Len(outbox)], rest |-> SubSeq(outbox, 1, Len(outbox) - 1)]

\* resp := <-s.outbox: the oldest response, and what stays in the channel.
OutboxRecv == [resp |-> Head(outbox), rest |-> Tail(outbox)]

\* select: case resp := <-s.outbox
WriterRecv ==
    /\ wrpc = "select"
    /\ outbox # <<>>
    /\ wrCur' = OutboxRecv.resp
    /\ outbox' = OutboxRecv.rest
    /\ wrpc' = "write"
    /\ UNCHANGED <<fixedVars, inbox, shutVars, readerVars, dispVars,
                   tableVars, workerVars, histVars>>

\* err := WritePacket(rw, resp) returns nil.
WriterWrite ==
    /\ wrpc = "write"
    /\ wrCur' = NoResp
    /\ wrpc' = "select"
    /\ UNCHANGED <<fixedVars, chanVars, shutVars, readerVars, dispVars,
                   tableVars, workerVars, histVars>>

\* err := WritePacket(rw, resp) returns an error: the writer is in the
\* if err != nil branch.
WriterWriteFails ==
    /\ wrpc = "write"
    /\ wrCur' = NoResp
    /\ wrpc' = "failed"
    /\ UNCHANGED <<fixedVars, chanVars, shutVars, readerVars, dispVars,
                   tableVars, workerVars, histVars>>

\* s.Logf("writing response failed"); break.  The break leaves the select
\* statement, not the for loop: the writer is back at the select.
WriterBreak ==
    /\ wrpc = "failed"
    /\ wrpc' = "select"
    /\ UNCHANGED <<fixedVars, chanVars, shutVars, readerVars, wrCur, dispVars,
                   tableVars, workerVars, histVars>>

(***************************************************************************)
(* Dispatcher goroutine.  A handler runs from one blocking call to the     *)
(* next: a call of s.fs (dpc = "call": the call is in progress, and is the *)
(* last of vfsCalls), s.Respond (dpc = "respond") or h.reqChan <- req      *)
(* (dpc = "forward").  A handler is entered at the select (dpc = "select") *)
(* and again whenever its s.fs call returns (dpc = "call").                *)
(***************************************************************************)
\* Errors of the s.fs calls, and of the calls on an open file.
FsErrs == {"ErrNotExist", "EIO"}
FileErrs == {"EOF", "EIO"}

\* A handler that answers only while no backend call of a worker is in
\* progress.
DReplyWhenNoCall(req, resp, calls) ==
    /\ \A n \in DOMAIN wpc : wpc[n] # "exec"
    /\ dpc' = "respond"
    /\ dReq' = req
    /\ dResp' = resp
    /\ dErr' = "nil"
    /\ vfsCalls' = calls
    /\ UNCHANGED dTo

\* The handler goes on to s.Respond(resp), having made the s.fs calls `calls`.
DReply(req, resp, calls) ==
    /\ dpc' = "respond"
    /\ dReq' = req
    /\ dResp' = resp
    /\ dErr' = "nil"
    /\ vfsCalls' = calls
    /\ UNCHANGED dTo

\* The handler goes on to s.respondError(id, err).
DReplyError(req, err, calls) ==
    /\ dpc' = "respond"
    /\ dReq' = req
    /\ dResp' = respondError(req.id, err)
    /\ dErr' = err
    /\ vfsCalls' = calls
    /\ UNCHANGED dTo

\* The handler goes on to the s.fs call that is the last of `calls`, and
\* is in it.
DCall(req, calls) ==
    /\ dpc' = "call"
    /\ dReq' = req
    /\ vfsCalls' = calls
    /\ UNCHANGED <<dTo, dResp, dErr>>

\* The handler goes on to h.reqChan <- req, h being the handle of worker n.
DForward(req, n) ==
    /\ dpc' = "forward"
    /\ dReq' = req
    /\ dTo' = n
    /\ UNCHANGED <<dResp, dErr, vfsCalls>>

\* What a handler that neither opens nor closes a handle leaves alone.
NoTableChange == UNCHANGED <<tableVars, wpc, nCloseFwd, shutVars>>

\* h, ok := s.files[req.Handle]; if !ok { respondError(ErrInvalidHandle) };
\* h.reqChan <- req
LookupAndForward(req) ==
    IF req.handle \in DOMAIN files
    THEN DForward(req, files[req.handle])
    ELSE DReplyError(req, "ErrInvalidHandle", <<>>)

handleInit(req) ==
    /\ req.kind = "INIT"
    /\ DReply(req, Resp("VERSION", 0, 0, "", ""), <<>>)
    /\ NoTableChange

handleRealPath(req) ==
    /\ req.kind = "REALPATH"
    /\ DReply(req, Resp("NAME", req.id, 0, "", ""), <<>>)
    /\ NoTableChange

\* Stat, then refuse when st.IsDir() = refuseDir, then Remove.
StatThenRemove(req, refuseDir) ==
    IF dpc = "select" THEN DCall(req, <<"Stat">>)
    ELSE IF vfsCalls = <<"Stat">>
    THEN \E sterr \in {"nil"} \cup FsErrs, isDir \in BOOLEAN :
           IF sterr # "nil" THEN DReplyError(req, sterr, <<"Stat">>)
           ELSE IF isDir = refuseDir THEN DReplyError(req, "ErrUnsupported", <<"Stat">>)
           ELSE DCall(req, <<"Stat", "Remove">>)
    ELSE \E rmerr \in {"nil"} \cup FsErrs :
           IF rmerr # "nil" THEN DReplyError(req, rmerr, <<"Stat", "Remove">>)
           ELSE DReply(req, respondOk(req.id), <<"Stat", "Remove">>)

handleRemove(req) ==
    /\ req.kind = "REMOVE"
    /\ StatThenRemove(req, TRUE)
    /\ NoTableChange

handleRmdir(req) ==
    /\ req.kind = "RMDIR"
    /\ StatThenRemove(req, FALSE)
    /\ NoTableChange

handleFstat(req) ==
    /\ req.kind = "FSTAT"
    /\ LookupAndForward(req)
    /\ NoTableChange

\* Stat, then the ATTRS response.
StatReply(req) ==
    IF dpc = "select" THEN DCall(req, <<"Stat">>)
    ELSE \E err \in {"nil"} \cup FsErrs :
           IF err # "nil" THEN DReplyError(req, err, <<"Stat">>)
           ELSE DReply(req, Resp("ATTRS", req.id, 0, "", ""), <<"Stat">>)

handleStat(req) ==
    /\ req.kind = "STAT"
    /\ StatReply(req)
    /\ NoTableChange

handleLstat(req) ==
    /\ req.kind = "LSTAT"
    /\ StatReply(req)
    /\ NoTableChange

handleSetStat(req) ==
    /\ req.kind = "SETSTAT"
    /\ LET perm == BitAnd(req.attrflags, FILEXFER_ATTR_PERMISSIONS) # 0
           calls == IF perm THEN <<"Chmod">> ELSE <<>>
       IN IF perm /\ dpc = "select" THEN DCall(req, calls)
          ELSE \E err \in {"nil"} \cup FsErrs :
            IF perm /\ err # "nil" THEN DReplyError(req, err, calls)
            ELSE IF BitAnd(req.attrflags, FILEXFER_ATTR_SIZE) # 0
                 THEN DReplyError(req, "ErrUnsupported", calls)
            ELSE IF BitAnd(req.attrflags, FILEXFER_ATTR_ACMODTIME) # 0
                 THEN DReplyError(req, "ErrUnsupported", calls)
            ELSE DReply(req, respondOk(req.id), calls)
    /\ NoTableChange

handleReadDir(req) ==
    /\ req.kind = "READDIR"
    /\ LookupAndForward(req)
    /\ NoTableChange

\* handleClose without delete(s.files, req.Handle).
handleCloseNoDelete(req) ==
    /\ req.kind = "CLOSE"
    /\ IF req.handle \in DOMAIN files
       THEN /\ nCloseFwd' = nCloseFwd + 1
            /\ DForward(req, files[req.handle])
       ELSE /\ DReplyError(req, "ErrInvalidHandle", <<>>)
            /\ UNCHANGED nCloseFwd
    /\ UNCHANGED <<files, fcounter, minted, wpc, shutVars>>

handleClose(req) ==
    /\ req.kind = "CLOSE"
    /\ IF req.handle \in DOMAIN files
       THEN /\ files' = [h \in DOMAIN files \ {req.handle} |-> files[h]]
            /\ nCloseFwd' = nCloseFwd + 1
            /\ DForward(req, files[req.handle])
       ELSE /\ DReplyError(req, "ErrInvalidHandle", <<>>)
            /\ UNCHANGED <<files, nCloseFwd>>
    /\ UNCHANGED <<fcounter, minted, wpc, shutVars>>

\* The handle id taken from the size of the table instead of the counter.
NewHandleIdFromTable == Itoa(Cardinality(DOMAIN files))

\* id := fmt.Sprintf("%d", s.fcounter)
NewHandleId == Itoa(fcounter)

\* handle := s.newFileHandle(f); s.files[handle.Id] = handle;
\* s.Respond(HANDLE).  The worker goroutine is started, waiting on its
\* reqChan.
OpenHandle(req, calls) ==
    LET id == NewHandleId
        n == fcounter
    IN /\ fcounter' = fcounter + 1
       /\ minted' = Append(minted, id)
       /\ wpc' = [wpc EXCEPT ![n] = "idle"]
       /\ files' = [h \in DOMAIN files \cup {id} |-> IF h = id THEN n ELSE files[h]]
       /\ DReply(req, Resp("HANDLE", req.id, 0, "", id), calls)

\* len(s.files) > s.Options.MaxFiles
TooManyOpenFiles == Cardinality(DOMAIN files) > optMaxFiles

\* req.Pflags after the recognised bits were cleared.
PflagsRest(pflags) ==
    BitClear(pflags, FXF_READ + FXF_WRITE + FXF_TRUNC + FXF_CREAT + FXF_APPEND + FXF_EXCL)

handleOpen(req) ==
    /\ req.kind = "OPEN"
    /\ IF dpc = "select" /\ TooManyOpenFiles
       THEN /\ DReplyError(req, "ErrTooManyOpenFiles", <<>>)
            /\ UNCHANGED <<tableVars, wpc>>
       ELSE IF dpc = "select" /\ PflagsRest(req.pflags) # 0
       THEN /\ DReplyError(req, "ErrUnsupported", <<>>)
            /\ UNCHANGED <<tableVars, wpc>>
       ELSE IF dpc = "select"
       THEN /\ DCall(req, <<"OpenFile">>)
            /\ UNCHANGED <<tableVars, wpc>>
       ELSE \E err \in {"nil"} \cup FsErrs \cup {"ErrPermission"} :
              IF err # "nil"
              THEN /\ DReplyError(req, err, <<"OpenFile">>)
                   /\ UNCHANGED <<tableVars, wpc>>
              ELSE OpenHandle(req, <<"OpenFile">>)
    /\ UNCHANGED <<nCloseFwd, shutVars>>

handleMkdir(req) ==
    /\ req.kind = "MKDIR"
    /\ IF dpc = "select" THEN DCall(req, <<"Mkdir">>)
       ELSE \E err \in {"nil"} \cup FsErrs :
              IF err # "nil" THEN DReplyError(req, err, <<"Mkdir">>)
              ELSE DReply(req, respondOk(req.id), <<"Mkdir">>)
    /\ NoTableChange

\* handleOpenDir that makes the handle before it looks at the error of Open.
handleOpenDirLeaky(req) ==
    /\ req.kind = "OPENDIR"
    /\ IF dpc = "select" /\ TooManyOpenFiles
       THEN /\ DReplyError(req, "ErrTooManyOpenFiles", <<>>)
            /\ UNCHANGED <<tableVars, wpc>>
       ELSE IF dpc = "select"
       THEN /\ DCall(req, <<"Open">>)
            /\ UNCHANGED <<tableVars, wpc>>
       ELSE \E err \in {"nil"} \cup FsErrs :
              LET id == NewHandleId
                  n == fcounter
              IN /\ fcounter' = fcounter + 1
                 /\ minted' = Append(minted, id)
                 /\ wpc' = [wpc EXCEPT ![n] = "idle"]
                 /\ files' = [h \in DOMAIN files \cup {id} |->
                                 IF h = id THEN n ELSE files[h]]
                 /\ IF err # "nil"
                    THEN DReplyError(req, err, <<"Open">>)
                    ELSE DReply(req, Resp("HANDLE", req.id, 0, "", id), <<"Open">>)
    /\ UNCHANGED <<nCloseFwd, shutVars>>

handleOpenDir(req) ==
    /\ req.kind = "OPENDIR"
    /\ IF dpc = "select" /\ TooManyOpenFiles
       THEN /\ DReplyError(req, "ErrTooManyOpenFiles", <<>>)
            /\ UNCHANGED <<tableVars, wpc>>
       ELSE IF dpc = "select"
       THEN /\ DCall(req, <<"Open">>)
            /\ UNCHANGED <<tableVars, wpc>>
       ELSE \E err \in {"nil"} \cup FsErrs :
              IF err # "nil"
              THEN /\ DReplyError(req, err, <<"Open">>)
                   /\ UNCHANGED <<tableVars, wpc>>
              ELSE OpenHandle(req, <<"Open">>)
    /\ UNCHANGED <<nCloseFwd, shutVars>>

handleWrite(req) ==
    /\ req.kind = "WRITE"
    /\ LookupAndForward(req)
    /\ NoTableChange

handleRead(req) ==
    /\ req.kind = "READ"
    /\ LookupAndForward(req)
    /\ NoTableChange

handleRename(req) ==
    /\ req.kind = "RENAME"
    /\ IF dpc = "select" THEN DCall(req, <<"Rename">>)
       ELSE \E err \in {"nil"} \cup FsErrs :
              IF err # "nil" THEN DReplyError(req, err, <<"Rename">>)
              ELSE DReply(req, respondOk(req.id), <<"Rename">>)
    /\ NoTableChange

handleReadLink(req) ==
    /\ req.kind = "READLINK"
    /\ DReplyError(req, "ErrUnsupported", <<>>)
    /\ NoTableChange

handleSymlink(req) ==
    /\ req.kind = "SYMLINK"
    /\ DReplyError(req, "ErrUnsupported", <<>>)
    /\ NoTableChange

\* Kinds the dispatcher's type switch has a case for.
SwitchKinds ==
    {"CLOSE", "FSTAT", "INIT", "LSTAT", "MKDIR", "OPENDIR", "OPEN", "READDIR",
     "READLINK", "READ", "REALPATH", "REMOVE", "RENAME", "RMDIR", "SETSTAT",
     "STAT", "SYMLINK", "WRITE"}

\* default: s.Logf("unimplemented request"); return.  The deferred
\* shutdown() runs.
handleDefault(req) ==
    /\ req.kind \notin SwitchKinds
    /\ dpc' = "done"
    /\ shutdown("unimplemented")
    /\ UNCHANGED <<dReq, dTo, dResp, dErr, vfsCalls, tableVars, wpc, nCloseFwd>>

\* select: case <-s.closed: return
DispatcherSeesClosed ==
    /\ dpc = "select"
    /\ closed
    /\ dpc' = "done"
    /\ shutdown("closed")
    /\ UNCHANGED <<fixedVars, chanVars, readerVars, writerVars, dReq, dTo, dResp,
                   dErr, vfsCalls, taken, tableVars, workerVars, histVars>>

\* The inbox read as a stack: the newest request first.
InboxRecvNewest ==
    [req |-> inbox[Len(inbox)], rest |-> SubSeq(inbox, 1, Len(inbox) - 1)]

\* req := <-s.inbox: the oldest request, and what stays in the channel.
InboxRecv == [req |-> Head(inbox), rest |-> Tail(inbox)]

\* switch req := req.(type): the handler of the request, from where it is
\* up to its next blocking call.
Handle(req) ==
    \/ handleClose(req)
    \/ handleFstat(req)
    \/ handleInit(req)
    \/ handleLstat(req)
    \/ handleMkdir(req)
    \/ handleOpenDir(req)
    \/ handleOpen(req)
    \/ handleReadDir(req)
    \/ handleReadLink(req)
    \/ handleRead(req)
    \/ handleRealPath(req)
    \/ handleRemove(req)
    \/ handleRename(req)
    \/ handleRmdir(req)
    \/ handleSetStat(req)
    \/ handleStat(req)
    \/ handleSymlink(req)
    \/ handleWrite(req)
    \/ handleDefault(req)

\* select: case req := <-s.inbox, and the handler of the type switch up to
\* its first blocking call.
Dispatch ==
    /\ dpc = "select"
    /\ inbox # <<>>
    /\ inbox' = InboxRecv.rest
    /\ LET req == InboxRecv.req
       IN /\ taken' = (IF req.kind = "INIT" THEN taken ELSE taken \cup {req.id})
          /\ Handle(req)
    /\ UNCHANGED <<fixedVars, outbox, readerVars, writerVars, wReq, wResp,
                   fileOps, fwd, posted, nOpenOk, nCloseOk>>

\* The s.fs call the handler is in returns, and the handler goes on to its
\* next blocking call.
DispatcherCallReturns ==
    /\ dpc = "call"
    /\ Handle(dReq)
    /\ UNCHANGED <<fixedVars, inbox, outbox, readerVars, writerVars, taken, wReq,
                   wResp, fileOps, fwd, posted, nOpenOk, nCloseOk>>

\* The handler's s.Respond returns; the handler returns to the loop.
DispatcherRespond ==
    /\ dpc = "respond"
    /\ Respond(dResp)
    /\ nOpenOk' = (IF outbox' # outbox /\ dResp.type = "HANDLE"
                   THEN nOpenOk + 1 ELSE nOpenOk)
    /\ dpc' = "select"
    /\ dReq' = NoReq
    /\ dResp' = NoResp
    /\ dErr' = "nil"
    /\ vfsCalls' = <<>>
    /\ UNCHANGED <<fixedVars, inbox, shutVars, readerVars, writerVars, dTo,
                   taken, tableVars, workerVars, nCloseOk, nCloseFwd>>

\* h.reqChan <- req meets the worker's receive (the channel is unbuffered);
\* the handler returns to the loop.
DispatcherForward ==
    /\ dpc = "forward"
    /\ wpc[dTo] = "idle"
    /\ wpc' = [wpc EXCEPT ![dTo] = "exec"]
    /\ wReq' = [wReq EXCEPT ![dTo] = dReq]
    /\ fwd' = [fwd EXCEPT ![dTo] = Append(@, dReq.id)]
    /\ dpc' = "select"
    /\ dReq' = NoReq
    /\ dTo' = 0
    /\ UNCHANGED <<fixedVars, chanVars, shutVars, readerVars, writerVars, dResp,
                   dErr, vfsCalls, taken, tableVars, wResp, fileOps, histVars>>

(***************************************************************************)
(* Per-handle worker goroutine (newFileHandle).  In "exec" the worker has  *)
(* received a request and its backend call is in progress; the action      *)
(* below is the call returning.  Only the five kinds the handlers forward  *)
(* ever reach a worker, so the default case of its switch has no action.   *)
(***************************************************************************)
\* A worker that goes back to its receive once the backend call returned,
\* without s.Respond.
WorkerCalledNoRespond(n, req, op, resp) ==
    /\ fileOps' = [fileOps EXCEPT ![n] = Append(@, [id |-> req.id, op |-> op])]
    /\ wResp' = wResp
    /\ wpc' = [wpc EXCEPT ![n] = "idle"]

\* The backend call of request req on file n returned; the worker goes on
\* to s.Respond(resp).
WorkerCalled(n, req, op, resp) ==
    /\ fileOps' = [fileOps EXCEPT ![n] = Append(@, [id |-> req.id, op |-> op])]
    /\ wResp' = [wResp EXCEPT ![n] = resp]
    /\ wpc' = [wpc EXCEPT ![n] = "respond"]

WorkerFstat(n) ==
    /\ wpc[n] = "exec"
    /\ wReq[n].kind = "FSTAT"
    /\ \E err \in {"nil"} \cup FileErrs :
         WorkerCalled(n, wReq[n], "Stat",
                      IF err # "nil" THEN respondError(wReq[n].id, err)
                      ELSE Resp("ATTRS", wReq[n].id, 0, "", ""))
    /\ UNCHANGED <<fixedVars, chanVars, shutVars, readerVars, writerVars, dispVars,
                   tableVars, wReq, fwd, histVars>>

WorkerWrite(n) ==
    /\ wpc[n] = "exec"
    /\ wReq[n].kind = "WRITE"
    /\ \E err \in {"nil"} \cup FileErrs :
         WorkerCalled(n, wReq[n], "WriteAt",
                      IF err # "nil" THEN respondError(wReq[n].id, err)
                      ELSE respondOk(wReq[n].id))
    /\ UNCHANGED <<fixedVars, chanVars, shutVars, readerVars, writerVars, dispVars,
                   tableVars, wReq, fwd, histVars>>

\* req.Len > 1024*1024 is refused before any call; otherwise ReadAt returns
\* (got, err) and only got = 0 with an error is answered with the error.
WorkerRead(n) ==
    /\ wpc[n] = "exec"
    /\ wReq[n].kind = "READ"
    /\ IF wReq[n].len > MaxReadLen
       THEN /\ wResp' = [wResp EXCEPT ![n] = respondError(wReq[n].id, "ErrBadRead")]
            /\ wpc' = [wpc EXCEPT ![n] = "respond"]
            /\ UNCHANGED fileOps
       ELSE \E got \in {0, wReq[n].len}, err \in {"nil"} \cup FileErrs :
              WorkerCalled(n, wReq[n], "ReadAt",
                           IF err # "nil" /\ got = 0 THEN respondError(wReq[n].id, err)
                           ELSE Resp("DATA", wReq[n].id, 0, "", ""))
    /\ UNCHANGED <<fixedVars, chanVars, shutVars, readerVars, writerVars, dispVars,
                   tableVars, wReq, fwd, histVars>>

WorkerReaddir(n) ==
    /\ wpc[n] = "exec"
    /\ wReq[n].kind = "READDIR"
    /\ \E err \in {"nil"} \cup FileErrs :
         WorkerCalled(n, wReq[n], "Readdir",
                      IF err # "nil" THEN respondError(wReq[n].id, err)
                      ELSE Resp("NAME", wReq[n].id, 0, "", ""))
    /\ UNCHANGED <<fixedVars, chanVars, shutVars, readerVars, writerVars, dispVars,
                   tableVars, wReq, fwd, histVars>>

\* err := f.Close(); the response, then return.
WorkerClose(n) ==
    /\ wpc[n] = "exec"
    /\ wReq[n].kind = "CLOSE"
    /\ \E err \in {"nil", "EIO"} :
         WorkerCalled(n, wReq[n], "Close",
                      IF err # "nil" THEN respondError(wReq[n].id, err)
                      ELSE respondOk(wReq[n].id))
    /\ UNCHANGED <<fixedVars, chanVars, shutVars, readerVars, writerVars, dispVars,
                   tableVars, wReq, fwd, histVars>>

\* A worker that goes on receiving after a CLOSE.
AfterRespondNoExit(kind) == "idle"

\* What the worker does after the response of a request of this kind:
\* return after a CLOSE, the next receive otherwise.
AfterRespond(kind) == IF kind = "CLOSE" THEN "exited" ELSE "idle"

\* The worker's s.Respond returns.
WorkerRespond(n) ==
    /\ wpc[n] = "respond"
    /\ Respond(wResp[n])
    /\ nCloseOk' = (IF outbox' # outbox /\ wReq[n].kind = "CLOSE" /\ wResp[n].code = FX_OK
                    THEN nCloseOk + 1 ELSE nCloseOk)
    /\ wpc' = [wpc EXCEPT ![n] = AfterRespond(wReq[n].kind)]
    /\ wReq' = [wReq EXCEPT ![n] = NoReq]
    /\ wResp' = [wResp EXCEPT ![n] = NoResp]
    /\ UNCHANGED <<fixedVars, inbox, shutVars, readerVars, writerVars, dispVars,
                   tableVars, fileOps, fwd, nOpenOk, nCloseFwd>>

(***************************************************************************)
(* The session.                                                            *)
(***************************************************************************)
Next ==
    \/ ReaderReadFails
    \/ ReaderRead
    \/ ReaderSeesClosed
    \/ ReaderSend
    \/ WriterSeesClosed
    \/ WriterRecv
    \/ WriterWrite
    \/ WriterWriteFails
    \/ WriterBreak
    \/ DispatcherSeesClosed
    \/ Dispatch
    \/ DispatcherCallReturns
    \/ DispatcherRespond
    \/ DispatcherForward
    \/ \E n \in Workers :
         \/ WorkerFstat(n)
         \/ WorkerWrite(n)
         \/ WorkerRead(n)
         \/ WorkerReaddir(n)
         \/ WorkerClose(n)
         \/ WorkerRespond(n)

Spec == Init /\ [][Next]_vars

\* main with -read-only, then Serve.  main puts the flag into the options
\* and hands the VFS it opened to Serve as it is; Serve keeps it as s.fs,
\* so the s.fs calls of the handlers and the file calls of the workers are
\* calls on the backend.
ReadOnlyInit ==
    /\ optMaxFiles \in 1..MaxMaxFiles
    /\ optReadOnly = TRUE
    /\ CodecIdle
    /\ ROInit
    /\ ServeInit

\* The session of a server started with -read-only.
ReadOnlySpec == ReadOnlyInit /\ [][Next]_vars

\* The steps of worker n.
WorkerStep(n) ==
    \/ WorkerFstat(n)
    \/ WorkerWrite(n)
    \/ WorkerRead(n)
    \/ WorkerReaddir(n)
    \/ WorkerClose(n)
    \/ WorkerRespond(n)

\* Every goroutine that can take a step takes one: a ReadPacket, a
\* WritePacket and a backend call in progress return, and a goroutine at
\* a select with a ready case goes on with one of the ready cases.  The
\* stream holds finitely many frames, so ReadPacket ends up failing.
Fairness ==
    /\ WF_vars(ReaderRead \/ ReaderReadFails)
    /\ WF_vars(ReaderSeesClosed \/ ReaderSend)
    /\ WF_vars(WriterSeesClosed \/ WriterRecv)
    /\ WF_vars(WriterWrite \/ WriterWriteFails)
    /\ WF_vars(WriterBreak)
    /\ WF_vars(DispatcherSeesClosed \/ Dispatch)
    /\ WF_vars(DispatcherCallReturns)
    /\ WF_vars(DispatcherRespond)
    /\ WF_vars(DispatcherForward)
    /\ \A n \in Workers : WF_vars(WorkerStep(n))

\* The session with scheduled goroutines.
FairSpec == Spec /\ Fairness

\* A session in which two OPENs were answered with the handles "0" and
\* "1" and their responses written, no other request has arrived yet, and
\* both workers wait on their reqChan.  The IDs of the OPENs, which the
\* client chooses, are not among 1..MaxReqs; MaxReqs - 1 requests follow,
\* numbered from 2.
TwoHandlesInit ==
    /\ optMaxFiles \in 1..MaxMaxFiles
    /\ optReadOnly = FALSE
    /\ CodecIdle
    /\ ROInit
    /\ inbox = <<>>
    /\ outbox = <<>>
    /\ closed = FALSE
    /\ closeOnce = FALSE
    /\ wg = NumTasks
    /\ closedBy = "none"
    /\ nCloses = 0
    /\ rpc = "read"
    /\ rReq = NoReq
    /\ nRead = 1
    /\ wrpc = "select"
    /\ wrCur = NoResp
    /\ dpc = "select"
    /\ dReq = NoReq
    /\ dTo = 0
    /\ dResp = NoResp
    /\ dErr = "nil"
    /\ vfsCalls = <<>>
    /\ taken = {}
    /\ files = [h \in {Itoa(0), Itoa(1)} |-> IF h = Itoa(0) THEN 0 ELSE 1]
    /\ fcounter = 2
    /\ minted = <<Itoa(0), Itoa(1)>>
    /\ wpc = [n \in Workers |-> IF n \in {0, 1} THEN "idle" ELSE "none"]
    /\ wReq = [n \in Workers |-> NoReq]
    /\ wResp = [n \in Workers |-> NoResp]
    /\ fileOps = [n \in Workers |-> <<>>]
    /\ fwd = [n \in Workers |-> <<>>]
    /\ posted = [i \in 0..MaxReqs |-> 0]
    /\ nOpenOk = 2
    /\ nCloseOk = 0
    /\ nCloseFwd = 0

\* The session from there on.
TwoHandlesSpec == TwoHandlesInit /\ [][Next]_vars

\* The same session one request later: request 1, a READ, WRITE, FSTAT or
\* READDIR on the handle "1", was read, taken by the dispatcher and
\* forwarded (handleRead and the like, then h.reqChan <- req), and the
\* worker of "1" is in its backend call.  MaxReqs - 1 requests follow,
\* numbered from 2, while that call is in progress or after it returns.
BusyHandleInit ==
    \E req \in {r \in Requests(1) : /\ r.kind \in {"READ", "WRITE", "FSTAT", "READDIR"}
                                     /\ r.handle = Itoa(1)} :
        /\ optMaxFiles \in 1..MaxMaxFiles
        /\ optReadOnly = FALSE
        /\ CodecIdle
        /\ ROInit
        /\ inbox = <<>>
        /\ outbox = <<>>
        /\ closed = FALSE
        /\ closeOnce = FALSE
        /\ wg = NumTasks
        /\ closedBy = "none"
        /\ nCloses = 0
        /\ rpc = "read"
        /\ rReq = NoReq
        /\ nRead = 1
        /\ wrpc = "select"
        /\ wrCur = NoResp
        /\ dpc = "select"
        /\ dReq = NoReq
        /\ dTo = 0
        /\ dResp = NoResp
        /\ dErr = "nil"
        /\ vfsCalls = <<>>
        /\ taken = {1}
        /\ files = [h \in {Itoa(0), Itoa(1)} |-> IF h = Itoa(0) THEN 0 ELSE 1]
        /\ fcounter = 2
        /\ minted = <<Itoa(0), Itoa(1)>>
        /\ wpc = [n \in Workers |-> IF n = 0 THEN "idle" ELSE IF n = 1 THEN "exec" ELSE "none"]
        /\ wReq = [n \in Workers |-> IF n = 1 THEN req ELSE NoReq]
        /\ wResp = [n \in Workers |-> NoResp]
        /\ fileOps = [n \in Workers |-> <<>>]
        /\ fwd = [n \in Workers |-> IF n = 1 THEN <<1>> ELSE <<>>]
        /\ posted = [i \in 0..MaxReqs |-> 0]
        /\ nOpenOk = 2
        /\ nCloseOk = 0
        /\ nCloseFwd = 0

\* The session from there on.
BusyHandleSpec == BusyHandleInit /\ [][Next]_vars

(***************************************************************************)
(* The read-only wrapper (vfs.ReadOnlyVFS, vfs.ReadOnlyFile) around an     *)
(* underlying VFS.  A step is one call on the wrapper or on a file it      *)
(* returned; the underlying VFS answers nil or an error of its own.        *)
(***************************************************************************)
\* The flag bits of package os (their Linux values).
O_RDONLY == 0
O_WRONLY == 1
O_RDWR == 2
O_CREATE == 64
O_EXCL == 128
O_TRUNC == 512
O_APPEND == 1024

\* The flag arguments of OpenFile.
OpenFlagSamples ==
    {O_RDONLY, O_WRONLY, O_RDWR, O_WRONLY + O_RDWR, O_RDONLY + O_CREATE,
     O_RDONLY + O_TRUNC, O_RDONLY + O_APPEND, O_RDONLY + O_EXCL,
     O_WRONLY + O_CREATE + O_TRUNC, O_RDWR + O_APPEND}

\* The errors of the underlying VFS and of its files.
UnderErrs == {"nil", "ErrNotExist"}

\* writeAttempt of OpenFile that forgets O_CREATE, O_TRUNC and O_APPEND.
writeAttemptAccessModeOnly(flag) ==
    ~(/\ BitAnd(flag, O_WRONLY) = 0
      /\ BitAnd(flag, O_RDWR) = 0
      /\ BitAnd(flag, 3) = O_RDONLY)

\* writeAttempt of ReadOnlyVFS.OpenFile.
writeAttempt(flag) ==
    ~(/\ BitAnd(flag, O_WRONLY) = 0
      /\ BitAnd(flag, O_RDWR) = 0
      /\ BitAnd(flag, 3) = O_RDONLY
      /\ BitAnd(flag, O_CREATE + O_TRUNC + O_APPEND) = 0)

\* return os.ErrPermission: the underlying object is not called.
Denied(call) ==
    /\ roN < MaxROCalls
    /\ roN' = roN + 1
    /\ roLast' = call
    /\ roRet' = "ErrPermission"
    /\ UNCHANGED <<roUnder, roFiles>>

\* return rofs.Fs.M(args) or rof.F.M(args): the underlying object gets the
\* call and its answer is returned; a successful open returns a new
\* ReadOnlyFile.
PassThrough(call, opens) ==
    /\ roN < MaxROCalls
    /\ roN' = roN + 1
    /\ roLast' = call
    /\ roUnder' = Append(roUnder, call)
    /\ \E e \in UnderErrs :
          /\ roRet' = e
          /\ roFiles' = (IF opens /\ e = "nil" THEN roFiles + 1 ELSE roFiles)

\* What a call on the wrapper leaves alone.
ROFrame == UNCHANGED <<optMaxFiles, optReadOnly, codecVars, sessionVars>>

ROChmod == Denied(Call("vfs", "Chmod", 0)) /\ ROFrame

ROOpen == PassThrough(Call("vfs", "Open", 0), TRUE) /\ ROFrame

ROOpenFile ==
    /\ \E flag \in OpenFlagSamples :
          IF writeAttempt(flag) THEN Denied(Call("vfs", "OpenFile", flag))
          ELSE PassThrough(Call("vfs", "OpenFile", flag), TRUE)
    /\ ROFrame

ROMkdir == Denied(Call("vfs", "Mkdir", 0)) /\ ROFrame

ROStat == PassThrough(Call("vfs", "Stat", 0), FALSE) /\ ROFrame

RORename == Denied(Call("vfs", "Rename", 0)) /\ ROFrame

RORemove == Denied(Call("vfs", "Remove", 0)) /\ ROFrame

ROClose == PassThrough(Call("vfs", "Close", 0), FALSE) /\ ROFrame

ROFileName == roFiles > 0 /\ PassThrough(Call("file", "Name", 0), FALSE) /\ ROFrame

ROFileChmod == roFiles > 0 /\ Denied(Call("file", "Chmod", 0)) /\ ROFrame

ROFileRead == roFiles > 0 /\ PassThrough(Call("file", "Read", 0), FALSE) /\ ROFrame

ROFileReadAt == roFiles > 0 /\ PassThrough(Call("file", "ReadAt", 0), FALSE) /\ ROFrame

ROFileReaddir == roFiles > 0 /\ PassThrough(Call("file", "Readdir", 0), FALSE) /\ ROFrame

ROFileReaddirnames ==
    roFiles > 0 /\ PassThrough(Call("file", "Readdirnames", 0), FALSE) /\ ROFrame

ROFileWrite == roFiles > 0 /\ Denied(Call("file", "Write", 0)) /\ ROFrame

ROFileWriteAt == roFiles > 0 /\ Denied(Call("file", "WriteAt", 0)) /\ ROFrame

ROFileStat == roFiles > 0 /\ PassThrough(Call("file", "Stat", 0), FALSE) /\ ROFrame

ROFileClose == roFiles > 0 /\ PassThrough(Call("file", "Close", 0), FALSE) /\ ROFrame

RONext ==
    \/ ROChmod
    \/ ROOpen
    \/ ROOpenFile
    \/ ROMkdir
    \/ ROStat
    \/ RORename
    \/ RORemove
    \/ ROClose
    \/ ROFileName
    \/ ROFileChmod
    \/ ROFileRead
    \/ ROFileReadAt
    \/ ROFileReaddir
    \/ ROFileReaddirnames
    \/ ROFileWrite
    \/ ROFileWriteAt
    \/ ROFileStat
    \/ ROFileClose

\* Any sequence of calls on a ReadOnlyVFS and its files.
ReadOnlyVFSSpec == ReadOnlyInit /\ [][RONext]_vars

(***************************************************************************)
(* Runs of the codec on one input: a packet is written with WritePacket,   *)
(* read back with ReadPacket and written again; a FileStat is marshalled   *)
(* and unmarshalled; ReadPacket is called on a stream.                     *)
(***************************************************************************)
\* The strings of the packets of the model: "" and "/x".
StringSamples == {<<>>, <<47, 120>>}

IDSamples == {1, 16909060}

\* A FileStat with the given flags and a value in every field.
FileStatOf(flags, k) ==
    [Flags |-> flags, Size |-> [hi |-> k, lo |-> 2 * k], Mode |-> 420 + k,
     Mtime |-> 6 * k, Atime |-> 5 * k, UID |-> 1000 * k, GID |-> 100 * k,
     Extended |-> <<>>]

\* Every flag mask over SIZE, UIDGID, PERMISSIONS and ACMODTIME.
FlagMasks ==
    0..(FILEXFER_ATTR_SIZE + FILEXFER_ATTR_UIDGID + FILEXFER_ATTR_PERMISSIONS
          + FILEXFER_ATTR_ACMODTIME)

FileStatSamples == {FileStatOf(fl, k) : fl \in FlagMasks, k \in 1..MaxFieldSeed}

\* The attributes of the packets of the model: none, size, permissions,
\* and all four.
AttrSamples ==
    {FileStatOf(fl, 1) :
        fl \in {0, FILEXFER_ATTR_SIZE, FILEXFER_ATTR_PERMISSIONS,
                FILEXFER_ATTR_SIZE + FILEXFER_ATTR_UIDGID + FILEXFER_ATTR_PERMISSIONS
                  + FILEXFER_ATTR_ACMODTIME}}

ExtensionSamples == {<<>>, <<[Name |-> <<97>>, Data |-> <<49>>]>>}

\* Valid packets of every request and response type.
PacketSamples ==
    {[ZeroPacket(t) EXCEPT !.Version = 3, !.Extensions = e] :
        t \in {"FxpInitPacket", "FxVersionPacket"}, e \in ExtensionSamples}
      \cup {[ZeroPacket(t) EXCEPT !.ID = id, ![IDStringPackets[t].field] = str] :
              t \in DOMAIN IDStringPackets, id \in IDSamples, str \in StringSamples}
      \cup {[ZeroPacket(t) EXCEPT !.ID = id, ![TwoStringPackets[t].first] = str,
                                  ![TwoStringPackets[t].second] = <<47, 121>>] :
              t \in DOMAIN TwoStringPackets, id \in IDSamples, str \in StringSamples}
      \cup {[ZeroPacket(t) EXCEPT !.ID = 1, ![IDStringAttrsPackets[t].field] = str,
                                  !.Attrs = a] :
              t \in DOMAIN IDStringAttrsPackets, str \in StringSamples, a \in AttrSamples}
      \cup {[ZeroPacket("FxpOpenPacket") EXCEPT !.ID = 1, !.Path = <<47, 120>>,
                                                !.Pflags = pf, !.Attrs = a] :
              pf \in PflagsSamples, a \in AttrSamples}
      \cup {[ZeroPacket("FxpReadPacket") EXCEPT !.ID = id, !.Handle = <<48>>,
                                                !.Offset = [hi |-> 0, lo |-> 5],
                                                !.Len = 32768] : id \in IDSamples}
      \cup {[ZeroPacket("FxpWritePacket") EXCEPT !.ID = id, !.Handle = <<48>>,
                                                 !.Offset = [hi |-> 1, lo |-> 0],
                                                 !.Length = Len(d), !.Data = d] :
              id \in IDSamples, d \in {<<>>, <<1, 2, 3>>}}
      \cup {[ZeroPacket("FxpStatResponse") EXCEPT !.ID = 1, !.Info = a] : a \in AttrSamples}
      \cup {[ZeroPacket("FxpNamePacket") EXCEPT !.ID = 1, !.NameAttrs = nas] :
              nas \in {<<>>, <<[Name |-> <<47, 120>>, LongName |-> <<47, 120>>,
                                Attrs |-> EmptyFileStat]>>}}
      \cup {[ZeroPacket("FxpHandlePacket") EXCEPT !.ID = id, !.Handle = <<48>>] :
              id \in IDSamples}
      \cup {[ZeroPacket("FxpStatusPacket") EXCEPT
                 !.ID = id, !.StatusError = [Code |-> code, Msg |-> <<>>, Lang |-> <<>>]] :
              id \in IDSamples, code \in {FX_OK, FX_FAILURE}}
      \cup {[ZeroPacket("FxpDataPacket") EXCEPT !.ID = id, !.Length = Len(d), !.Data = d] :
              id \in IDSamples, d \in {<<>>, <<1, 2, 3>>}}

\* What a run of the codec leaves alone.
CodecFrame == UNCHANGED <<optMaxFiles, optReadOnly, roVars, sessionVars>>

\* A run of the codec on the input cIn begins.
CodecInitWith(inputs) ==
    /\ optMaxFiles = 1
    /\ optReadOnly = FALSE
    /\ ROInit
    /\ ServeInit
    /\ cIn \in inputs
    /\ cWire = <<>>
    /\ cOut = <<>>
    /\ cWire2 = <<>>
    /\ cpc = "start"

\* WritePacket(w, cIn)
CodecEncode ==
    /\ cpc = "start"
    /\ cWire' = WritePacket(cIn)
    /\ cpc' = "encoded"
    /\ UNCHANGED <<cIn, cOut, cWire2>>
    /\ CodecFrame

\* ReadPacket(r) on the bytes written
CodecDecode ==
    /\ cpc = "encoded"
    /\ cOut' = ReadPacket(Stream(cWire, "EOF"))
    /\ cpc' = "decoded"
    /\ UNCHANGED <<cIn, cWire, cWire2>>
    /\ CodecFrame

\* WritePacket(w, pkt) of the packet ReadPacket returned
CodecReencode ==
    /\ cpc = "decoded"
    /\ cOut.err = "nil"
    /\ cWire2' = WritePacket(cOut.pkt)
    /\ cpc' = "reencoded"
    /\ UNCHANGED <<cIn, cWire, cOut>>
    /\ CodecFrame

CodecNext == CodecEncode \/ CodecDecode \/ CodecReencode

\* Encode, decode, encode of every packet of PacketSamples.
CodecSpec == CodecInitWith(PacketSamples) /\ [][CodecNext]_vars

\* marshalFileStat(nil, cIn)
FileStatMarshal ==
    /\ cpc = "start"
    /\ cWire' = marshalFileStat(<<>>, cIn)
    /\ cpc' = "encoded"
    /\ UNCHANGED <<cIn, cOut, cWire2>>
    /\ CodecFrame

\* unmarshalFileStatSafe(b, &stat) on the bytes written, into a zero stat
FileStatUnmarshal ==
    /\ cpc = "encoded"
    /\ cOut' = unmarshalFileStatSafe(cWire, EmptyFileStat)
    /\ cpc' = "decoded"
    /\ UNCHANGED <<cIn, cWire, cWire2>>
    /\ CodecFrame

FileStatNext == FileStatMarshal \/ FileStatUnmarshal

\* Marshal, unmarshal of every FileStat of FileStatSamples.
FileStatSpec == CodecInitWith(FileStatSamples) /\ [][FileStatNext]_vars

\* ReadPacket(cIn)
ReadPacketCall ==
    /\ cpc = "start"
    /\ cOut' = ReadPacket(cIn)
    /\ cpc' = "decoded"
    /\ UNCHANGED <<cIn, cWire, cWire2>>
    /\ CodecFrame

\* ReadPacket on every stream of StreamSamples.
ReadPacketSpec == CodecInitWith(StreamSamples) /\ [][ReadPacketCall]_vars

\* The packets of PacketSamples that ReadPacket has a case for.
RequestSamples == {p \in PacketSamples : \E t \in DOMAIN PacketTypeOfTag : PacketTypeOfTag[t] = p.type}

\* b[1:] of ReadPacket: the bytes of a packet after its type byte.
BodyOf(p) == Drop(MarshalBinary(p), 1)

\* The body of every request of RequestSamples, cut short at every length
\* below its own.
TruncatedBodies ==
    UNION {{[type |-> p.type, body |-> BodyOf(p), cut |-> k] :
               k \in 0..(Len(BodyOf(p)) - 1)} : p \in RequestSamples}

\* pkt.UnmarshalBinary(b) on the first cut bytes of a body
UnmarshalTruncated ==
    /\ cpc = "start"
    /\ cOut' = UnmarshalBinary(ZeroPacket(cIn.type), SubSeq(cIn.body, 1, cIn.cut))
    /\ cpc' = "decoded"
    /\ UNCHANGED <<cIn, cWire, cWire2>>
    /\ CodecFrame

\* UnmarshalBinary on every body of TruncatedBodies.
TruncationSpec == CodecInitWith(TruncatedBodies) /\ [][UnmarshalTruncated]_vars

(***************************************************************************)
(* The handlers and the error mapper, one call at a time.  The input cIn   *)
(* is the call: its name, the request and what the backend will answer;    *)
(* cOut is what the call did: the backend calls it made, in order, and     *)
(* the response it handed to Respond.                                      *)
(***************************************************************************)
\* Request IDs of the calls of the model.
CallIDs == {0, 1, 7, 16909060, 2147483647}

\* Errors a backend call returns, and the sentinels of the session.
ErrorSamples ==
    {"EOF", "ErrNotExist", "ErrPermission", "PathError(EACCES)", "PathError(ENOENT)",
     "ErrUnsupported", "ErrTooManyOpenFiles", "ErrInvalidHandle", "ErrBadRead", "EIO",
     "ErrUnexpectedEOF"}

RespondErrorCalls ==
    {[op |-> "respondError", id |-> id, err |-> e] : id \in CallIDs, e \in ErrorSamples}

\* s.respondError(respId, err), up to s.Respond
RespondErrorCall ==
    /\ cpc = "start"
    /\ cIn.op = "respondError"
    /\ cOut' = [calls |-> <<>>, resp |-> respondError(cIn.id, cIn.err)]
    /\ cpc' = "returned"
    /\ UNCHANGED <<cIn, cWire, cWire2>>
    /\ CodecFrame

\* A call on s.fs or on a file, with its arguments.
FsCall(op, args) == [op |-> op, args |-> args]

\* What a handler did: the backend calls it made, and the response it
\* handed to Respond.
Did(calls, resp) == [calls |-> calls, resp |-> resp]

\* A handleRmdir that refuses directories, as handleRemove does.
handleRmdirRefusesDir(req, fs) ==
    IF fs.statErr # "nil"
    THEN Did(<<FsCall("Stat", <<req.path>>)>>, respondError(req.id, fs.statErr))
    ELSE IF fs.isDir
    THEN Did(<<FsCall("Stat", <<req.path>>)>>, respondError(req.id, "ErrUnsupported"))
    ELSE IF fs.removeErr # "nil"
    THEN Did(<<FsCall("Stat", <<req.path>>), FsCall("Remove", <<req.path>>)>>,
             respondError(req.id, fs.removeErr))
    ELSE Did(<<FsCall("Stat", <<req.path>>), FsCall("Remove", <<req.path>>)>>,
             respondOk(req.id))

\* handleRemove on the request req, the backend answering Stat with
\* (IsDir() = fs.isDir, fs.statErr) and Remove with fs.removeErr.
handleRemoveOn(req, fs) ==
    IF fs.statErr # "nil"
    THEN Did(<<FsCall("Stat", <<req.path>>)>>, respondError(req.id, fs.statErr))
    ELSE IF fs.isDir
    THEN Did(<<FsCall("Stat", <<req.path>>)>>, respondError(req.id, "ErrUnsupported"))
    ELSE IF fs.removeErr # "nil"
    THEN Did(<<FsCall("Stat", <<req.path>>), FsCall("Remove", <<req.path>>)>>,
             respondError(req.id, fs.removeErr))
    ELSE Did(<<FsCall("Stat", <<req.path>>), FsCall("Remove", <<req.path>>)>>,
             respondOk(req.id))

\* handleRmdir, likewise.
handleRmdirOn(req, fs) ==
    IF fs.statErr # "nil"
    THEN Did(<<FsCall("Stat", <<req.path>>)>>, respondError(req.id, fs.statErr))
    ELSE IF ~fs.isDir
    THEN Did(<<FsCall("Stat", <<req.path>>)>>, respondError(req.id, "ErrUnsupported"))
    ELSE IF fs.removeErr # "nil"
    THEN Did(<<FsCall("Stat", <<req.path>>), FsCall("Remove", <<req.path>>)>>,
             respondError(req.id, fs.removeErr))
    ELSE Did(<<FsCall("Stat", <<req.path>>), FsCall("Remove", <<req.path>>)>>,
             respondOk(req.id))

\* REMOVE and RMDIR requests, and what the backend answers.
RemoveCalls ==
    {[op |-> op, req |-> [id |-> id, path |-> "/x"],
      fs |-> [statErr |-> se, isDir |-> d, removeErr |-> re]] :
        op \in {"handleRemove", "handleRmdir"}, id \in {1, 16909060},
        se \in {"nil", "ErrNotExist", "PathError(ENOENT)", "EIO"}, d \in BOOLEAN,
        re \in {"nil", "ErrPermission", "EIO"}}

\* s.handleRemove(req), up to s.Respond
HandleRemoveCall ==
    /\ cpc = "start"
    /\ cIn.op = "handleRemove"
    /\ cOut' = handleRemoveOn(cIn.req, cIn.fs)
    /\ cpc' = "returned"
    /\ UNCHANGED <<cIn, cWire, cWire2>>
    /\ CodecFrame

\* s.handleRmdir(req), up to s.Respond
HandleRmdirCall ==
    /\ cpc = "start"
    /\ cIn.op = "handleRmdir"
    /\ cOut' = handleRmdirOn(cIn.req, cIn.fs)
    /\ cpc' = "returned"
    /\ UNCHANGED <<cIn, cWire, cWire2>>
    /\ CodecFrame

\* os.FileMode(0755) and the mask 0777.
DefaultMode == 493
PermMask == 511

\* An openFlags that forgets FXF_EXCL.
openFlagsNoExcl(pflags) ==
    (IF BitAnd(pflags, FXF_READ) # 0 /\ BitAnd(pflags, FXF_WRITE) # 0 THEN O_RDWR
     ELSE IF BitAnd(pflags, FXF_READ) # 0 THEN O_RDONLY
     ELSE IF BitAnd(pflags, FXF_WRITE) # 0 THEN O_WRONLY
     ELSE 0)
      + (IF BitAnd(pflags, FXF_TRUNC) # 0 THEN O_TRUNC ELSE 0)
      + (IF BitAnd(pflags, FXF_CREAT) # 0 THEN O_CREATE ELSE 0)
      + (IF BitAnd(pflags, FXF_APPEND) # 0 THEN O_APPEND ELSE 0)

\* flags of handleOpen: the access mode, then one bit for each of TRUNC,
\* CREAT, APPEND and EXCL (the bits are distinct, so or-ing is adding).
openFlags(pflags) ==
    (IF BitAnd(pflags, FXF_READ) # 0 /\ BitAnd(pflags, FXF_WRITE) # 0 THEN O_RDWR
     ELSE IF BitAnd(pflags, FXF_READ) # 0 THEN O_RDONLY
     ELSE IF BitAnd(pflags, FXF_WRITE) # 0 THEN O_WRONLY
     ELSE 0)
      + (IF BitAnd(pflags, FXF_TRUNC) # 0 THEN O_TRUNC ELSE 0)
      + (IF BitAnd(pflags, FXF_CREAT) # 0 THEN O_CREATE ELSE 0)
      + (IF BitAnd(pflags, FXF_APPEND) # 0 THEN O_APPEND ELSE 0)
      + (IF BitAnd(pflags, FXF_EXCL) # 0 THEN O_EXCL ELSE 0)

\* mode of handleOpen and handleMkdir.
openMode(attrs) ==
    IF BitAnd(attrs.Flags, FILEXFER_ATTR_PERMISSIONS) # 0
    THEN BitAnd(attrs.Mode, PermMask)
    ELSE DefaultMode

\* handleOpen on the request req in a session with sess.nfiles handles in
\* the table, the limit sess.maxFiles and the counter sess.fcounter, the
\* backend answering OpenFile with fs.openErr.  nfiles and fcounter are
\* their values when the handler returns.
handleOpenOn(req, sess, fs) ==
    LET none(resp) == [calls |-> <<>>, resp |-> resp, nfiles |-> sess.nfiles,
                       fcounter |-> sess.fcounter]
        call == FsCall("OpenFile", <<req.path, openFlags(req.pflags), openMode(req.attrs)>>)
    IN IF sess.nfiles > sess.maxFiles
       THEN none(respondError(req.id, "ErrTooManyOpenFiles"))
       ELSE IF PflagsRest(req.pflags) # 0
       THEN none(respondError(req.id, "ErrUnsupported"))
       ELSE IF fs.openErr # "nil"
       THEN [calls |-> <<call>>, resp |-> respondError(req.id, fs.openErr),
             nfiles |-> sess.nfiles, fcounter |-> sess.fcounter]
       ELSE [calls |-> <<call>>,
             resp |-> Resp("HANDLE", req.id, 0, "", Itoa(sess.fcounter)),
             nfiles |-> sess.nfiles + 1, fcounter |-> sess.fcounter + 1]

\* pflags of the OPEN requests: every combination of the six bits the
\* server knows, and values with a bit outside them.
OpenPflags == 0..63 \cup {64, 65, 127, 259}

\* attrs of the OPEN requests: without and with PERMISSIONS, the mode with
\* file-type and setuid bits above the permission bits.
OpenAttrs ==
    {[Flags |-> 0, Mode |-> 0], [Flags |-> FILEXFER_ATTR_SIZE, Mode |-> 420],
     [Flags |-> FILEXFER_ATTR_PERMISSIONS, Mode |-> 420],
     [Flags |-> FILEXFER_ATTR_PERMISSIONS, Mode |-> 33188],
     [Flags |-> FILEXFER_ATTR_PERMISSIONS + FILEXFER_ATTR_SIZE, Mode |-> 4095]}

OpenCalls ==
    {[op |-> "handleOpen", req |-> [id |-> 1, path |-> "/x", pflags |-> pf, attrs |-> a],
      sess |-> [nfiles |-> n, maxFiles |-> 1, fcounter |-> 5],
      fs |-> [openErr |-> e]] :
        pf \in OpenPflags, a \in OpenAttrs, n \in 0..2, e \in {"nil", "ErrNotExist"}}

\* s.handleOpen(req), up to s.Respond
HandleOpenCall ==
    /\ cpc = "start"
    /\ cIn.op = "handleOpen"
    /\ cOut' = handleOpenOn(cIn.req, cIn.sess, cIn.fs)
    /\ cpc' = "returned"
    /\ UNCHANGED <<cIn, cWire, cWire2>>
    /\ CodecFrame

\* A DATA response: FxpDataPacket{ID, Length, Data}.
DataResp(id, length, data) == [type |-> "DATA", id |-> id, length |-> length, data |-> data]

\* A READ case that answers with the error whenever ReadAt returned one.
workerReadErrorFirst(req, f) ==
    IF req.len > MaxReadLen
    THEN Did(<<>>, respondError(req.id, "ErrBadRead"))
    ELSE IF f.err # "nil"
    THEN Did(<<FsCall("ReadAt", <<req.len, req.offset>>)>>, respondError(req.id, f.err))
    ELSE Did(<<FsCall("ReadAt", <<req.len, req.offset>>)>>,
             DataResp(req.id, Len(f.data), f.data))

\* The FxpReadPacket case of the worker on the request req, f.ReadAt
\* putting the bytes f.data into the buffer and returning (len(f.data),
\* f.err).  The first argument recorded for ReadAt is len(buf).
workerReadOn(req, f) ==
    IF req.len > MaxReadLen
    THEN Did(<<>>, respondError(req.id, "ErrBadRead"))
    ELSE IF f.err # "nil" /\ Len(f.data) = 0
    THEN Did(<<FsCall("ReadAt", <<req.len, req.offset>>)>>, respondError(req.id, f.err))
    ELSE Did(<<FsCall("ReadAt", <<req.len, req.offset>>)>>,
             DataResp(req.id, Len(f.data), SubSeq(f.data, 1, Len(f.data))))

\* READ requests with lengths up to and over the limit, and what ReadAt
\* answers: no more bytes than the buffer holds, with or without an error.
ReadCalls ==
    {c \in {[op |-> "workerRead", req |-> [id |-> id, offset |-> off, len |-> l],
             f |-> [data |-> d, err |-> e]] :
               id \in {1, 16909060},
               off \in {[hi |-> 0, lo |-> 0], [hi |-> 1, lo |-> 5]},
               l \in {0, 3, 5, MaxReadLen, MaxReadLen + 1, 2147483647},
               d \in {<<>>, <<7, 8, 9>>, <<1, 2, 3, 4, 5>>},
               e \in {"nil", "EOF", "EIO"}} :
        Len(c.f.data) <= c.req.len}

\* case *protosftp.FxpReadPacket of the worker, up to s.Respond
WorkerReadCall ==
    /\ cpc = "start"
    /\ cIn.op = "workerRead"
    /\ cOut' = workerReadOn(cIn.req, cIn.f)
    /\ cpc' = "returned"
    /\ UNCHANGED <<cIn, cWire, cWire2>>
    /\ CodecFrame

\* A handleSetStat that looks at SIZE and ACMODTIME before it calls Chmod.
handleSetStatUnsupportedFirst(req, fs) ==
    IF BitAnd(req.attrs.Flags, FILEXFER_ATTR_SIZE) # 0
    THEN Did(<<>>, respondError(req.id, "ErrUnsupported"))
    ELSE IF BitAnd(req.attrs.Flags, FILEXFER_ATTR_ACMODTIME) # 0
    THEN Did(<<>>, respondError(req.id, "ErrUnsupported"))
    ELSE IF BitAnd(req.attrs.Flags, FILEXFER_ATTR_PERMISSIONS) # 0 /\ fs.chmodErr # "nil"
    THEN Did(<<FsCall("Chmod", <<req.path, req.attrs.Mode>>)>>,
             respondError(req.id, fs.chmodErr))
    ELSE Did(IF BitAnd(req.attrs.Flags, FILEXFER_ATTR_PERMISSIONS) # 0
             THEN <<FsCall("Chmod", <<req.path, req.attrs.Mode>>)>> ELSE <<>>,
             respondOk(req.id))

\* handleSetStat on the request req, the backend answering Chmod with
\* fs.chmodErr.
handleSetStatOn(req, fs) ==
    LET perm == BitAnd(req.attrs.Flags, FILEXFER_ATTR_PERMISSIONS) # 0
        calls == IF perm THEN <<FsCall("Chmod", <<req.path, req.attrs.Mode>>)>> ELSE <<>>
    IN IF perm /\ fs.chmodErr # "nil"
       THEN Did(calls, respondError(req.id, fs.chmodErr))
       ELSE IF BitAnd(req.attrs.Flags, FILEXFER_ATTR_SIZE) # 0
       THEN Did(calls, respondError(req.id, "ErrUnsupported"))
       ELSE IF BitAnd(req.attrs.Flags, FILEXFER_ATTR_ACMODTIME) # 0
       THEN Did(calls, respondError(req.id, "ErrUnsupported"))
       ELSE Did(calls, respondOk(req.id))

\* SETSTAT requests with every mask over SIZE, UIDGID, PERMISSIONS and
\* ACMODTIME, and what Chmod answers.
SetStatCalls ==
    {[op |-> "handleSetStat",
      req |-> [id |-> id, path |-> "/x", attrs |-> [Flags |-> fl, Mode |-> mode]],
      fs |-> [chmodErr |-> e]] :
        id \in {1, 16909060}, fl \in FlagMasks, mode \in {420, 33188},
        e \in {"nil", "ErrNotExist", "ErrPermission", "EIO"}}

\* s.handleSetStat(req), up to s.Respond
HandleSetStatCall ==
    /\ cpc = "start"
    /\ cIn.op = "handleSetStat"
    /\ cOut' = handleSetStatOn(cIn.req, cIn.fs)
    /\ cpc' = "returned"
    /\ UNCHANGED <<cIn, cWire, cWire2>>
    /\ CodecFrame

S_IFREG == 32768
S_IFDIR == 16384

\* The capacity of Upload.errChan: make(chan error, 1)
errChanCap == 1

\* uint32(v) of a 64-bit value kept as two 32-bit halves: the low half.
Uint32(v) == v.lo

\* An os.FileInfo is the record of what its methods return: size (Size(),
\* 64 bits), mode (Mode() without the bit os.ModeDir, 1 << 31, which
\* IsDir() reports), isDir (IsDir()) and modTime, the sequence of what the
\* first and the second call of ModTime().Unix() return (64 bits each).
\* The two are one stored value for the FileInfo of os.Stat and of a
\* dropbox file, and two readings of the clock for a dropbox folder.
ModTime(stat, call) == stat.modTime[call]

\* The *dbxfs.FileStat of a file (FileMetadata with Size and
\* ClientModified) or of a folder (FolderMetadata), the clock reading
\* now1 at the first call of ModTime() and now2 at the second.
dbxFileStat(isFolder, size, clientModified, now1, now2) ==
    [size |-> IF isFolder THEN [hi |-> 0, lo |-> 0] ELSE size,
     mode |-> 493,
     isDir |-> isFolder,
     modTime |-> IF isFolder THEN <<now1, now2>> ELSE <<clientModified, clientModified>>]

\* The fields of the literal are evaluated in the order written: Atime is
\* the first call of stat.ModTime(), Mtime the second.
fileStatToSFTPStat(stat) ==
    [EmptyFileStat EXCEPT
        !.Flags = FILEXFER_ATTR_SIZE + FILEXFER_ATTR_PERMISSIONS + FILEXFER_ATTR_ACMODTIME,
        !.Size = stat.size,
        !.Atime = Uint32(ModTime(stat, 1)),
        !.Mtime = Uint32(ModTime(stat, 2)),
        !.Mode = BitAnd(stat.mode, PermMask) + (IF stat.isDir THEN S_IFDIR ELSE S_IFREG)]

\* An ATTRS response: FxpStatResponse{ID, Info}.
StatResp(id, info) == [type |-> "ATTRS", id |-> id, info |-> info]

\* handleStat on the request req, the backend answering Stat with
\* (fs.info, fs.statErr).
handleStatOn(req, fs) ==
    IF fs.statErr # "nil"
    THEN Did(<<FsCall("Stat", <<req.path>>)>>, respondError(req.id, fs.statErr))
    ELSE Did(<<FsCall("Stat", <<req.path>>)>>, StatResp(req.id, fileStatToSFTPStat(fs.info)))

\* Times in Unix seconds: below 2^31, above 2^32.
TimeSamples == {[hi |-> 0, lo |-> 0], [hi |-> 0, lo |-> 1577934245], [hi |-> 1, lo |-> 5]}

\* Two readings of the clock by one call of fileStatToSFTPStat: within
\* one second, or with the second changing between them.
ClockSamples ==
    {<<[hi |-> 0, lo |-> 1577934245], [hi |-> 0, lo |-> 1577934245 + d]>> : d \in {0, 1}}

\* FileInfos with a stored modification time (os.Stat): sizes below and
\* above 2^32, permission bits alone and with the setuid bit of
\* os.FileMode (1 << 23), files and directories; and the FileInfos of the
\* dropbox backend, files and folders.
FileInfoSamples ==
    {[size |-> sz, mode |-> mode, isDir |-> d, modTime |-> <<t, t>>] :
        sz \in {[hi |-> 0, lo |-> 0], [hi |-> 0, lo |-> 11], [hi |-> 1, lo |-> 0]},
        mode \in {0, 420, 493, 511, 8388608 + 420},
        d \in BOOLEAN,
        t \in TimeSamples}
    \cup {dbxFileStat(d, [hi |-> 0, lo |-> 11], t, now[1], now[2]) :
             d \in BOOLEAN, t \in TimeSamples, now \in ClockSamples}

StatCalls ==
    {[op |-> "handleStat", req |-> [id |-> id, path |-> "/x"],
      fs |-> [info |-> info, statErr |-> e]] :
        id \in {1, 16909060}, info \in FileInfoSamples, e \in {"nil", "ErrNotExist"}}

\* The error of Stat of the local backend, which is os.Stat: nil, or a
\* *os.PathError around the errno.
localStat(outcome) ==
    CASE outcome = "found" -> "nil"
      [] outcome = "missing" -> "PathError(ENOENT)"
      [] outcome = "denied" -> "PathError(EACCES)"

\* The error of dbxStat: os.ErrNotExist for the tag not_found of the
\* GetMetadata error, any other error of the API as it is.
dbxStat(outcome) ==
    CASE outcome = "found" -> "nil"
      [] outcome = "missing" -> "ErrNotExist"
      [] outcome = "denied" -> "APIError"

\* STAT of a path that is there, is missing, or may not be looked at, on
\* each backend.
BackendStatCalls ==
    {[op |-> "handleStat", req |-> [id |-> 7, path |-> "/x"],
      backend |-> b, outcome |-> o,
      fs |-> [info |-> [size |-> [hi |-> 0, lo |-> 11], mode |-> 420, isDir |-> FALSE,
                        modTime |-> <<[hi |-> 0, lo |-> 1577934245],
                                      [hi |-> 0, lo |-> 1577934245]>>],
              statErr |-> IF b = "local" THEN localStat(o) ELSE dbxStat(o)]] :
        b \in {"local", "dbxfs"}, o \in {"found", "missing", "denied"}}

\* s.handleStat(req), up to s.Respond
HandleStatCall ==
    /\ cpc = "start"
    /\ cIn.op = "handleStat"
    /\ cOut' = handleStatOn(cIn.req, cIn.fs)
    /\ cpc' = "returned"
    /\ UNCHANGED <<cIn, cWire, cWire2>>
    /\ CodecFrame

HandlerCalls ==
    RespondErrorCalls \cup RemoveCalls \cup OpenCalls \cup ReadCalls \cup SetStatCalls
      \cup StatCalls \cup BackendStatCalls

HandlerNext ==
    \/ RespondErrorCall
    \/ HandleRemoveCall
    \/ HandleRmdirCall
    \/ HandleOpenCall
    \/ WorkerReadCall
    \/ HandleSetStatCall
    \/ HandleStatCall

\* Every call of HandlerCalls, from a fresh session.
HandlerSpec == CodecInitWith(HandlerCalls) /\ [][HandlerNext]_vars

(***************************************************************************)
(* READDIR requests on one directory handle.  The directory is the one of  *)
(* the dropbox backend (dbxfs.FileHandle): its first Readdir lists the     *)
(* folder into a temporary file, which can fail, and every Readdir then    *)
(* decodes entries from that file.  cIn.n is the number of entries of the  *)
(* folder, numbered 1..n in listing order; cOut holds the directory        *)
(* (dir), the calls it received (calls) and, for every request answered,   *)
(* what Readdir returned and the response (hist).                          *)
(***************************************************************************)
\* f.Readdir(64)
ReaddirBatch == 64

\* A NAME response: one FxpNameAttr per FileInfo, in order.
NameResp(id, infos) == [type |-> "NAME", id |-> id, infos |-> infos]

\* FileHandle.Readdir(n) once the folder is listed: entries are decoded
\* until n are there or the file ends; none, with n > 0, is io.EOF.
\* dir.pos entries of dir.n were decoded before.
dirReaddir(dir, n) ==
    LET last == IF n <= 0 \/ dir.pos + n > dir.n THEN dir.n ELSE dir.pos + n
        stats == [i \in 1..(last - dir.pos) |-> dir.pos + i]
    IN [stats |-> stats,
        err |-> IF Len(stats) = 0 /\ n > 0 THEN "EOF" ELSE "nil",
        dir |-> [dir EXCEPT !.pos = last, !.listed = TRUE]]

\* A READDIR that reads the directory in one go: f.Readdir(0).
workerReaddirAll(req, Readdir) ==
    LET ret == Readdir[0]
    IN [calls |-> <<FsCall("Readdir", <<0>>)>>,
        resp |-> IF ret.err # "nil" THEN respondError(req.id, ret.err)
                 ELSE NameResp(req.id, ret.stats),
        ret |-> ret]

\* The FxpReaddirPacket case of the worker on the request req, Readdir[n]
\* being what f.Readdir(n) returns; ret is what the call returned.
workerReaddirOn(req, Readdir) ==
    LET ret == Readdir[ReaddirBatch]
    IN [calls |-> <<FsCall("Readdir", <<ReaddirBatch>>)>>,
        resp |-> IF ret.err # "nil" THEN respondError(req.id, ret.err)
                 ELSE NameResp(req.id, ret.stats),
        ret |-> ret]

\* Sizes of the folders of the model.
DirSizes == {0, 1, 2, 3, 63, 64, 65, 127, 128, 129, 130}

ReaddirFrame == UNCHANGED <<cIn, cWire, cWire2>> /\ CodecFrame

\* OPENDIR was answered: the handle's file is the directory, not yet listed.
ReaddirOpen ==
    /\ cpc = "start"
    /\ cOut' = [dir |-> [n |-> cIn.n, pos |-> 0, listed |-> FALSE],
                calls |-> <<>>, hist |-> <<>>]
    /\ cpc' = "open"
    /\ ReaddirFrame

\* The next READDIR of the handle reaches the worker and is answered.
\* The requests carry the IDs 1, 2, ...
ReaddirAnswered(Readdir) ==
    LET did == workerReaddirOn([id |-> Len(cOut.hist) + 1], Readdir)
    IN cOut' = [dir |-> did.ret.dir,
                calls |-> cOut.calls \o did.calls,
                hist |-> Append(cOut.hist, [stats |-> did.ret.stats, err |-> did.ret.err,
                                            resp |-> did.resp])]

\* READDIR, the backend listing the folder and reading on in the listing.
WorkerReaddirCall ==
    /\ cpc = "open"
    /\ Len(cOut.hist) < MaxReaddirs
    /\ LET Readdir == [n \in 0..ReaddirBatch |-> dirReaddir(cOut.dir, n)]
       IN ReaddirAnswered(Readdir)
    /\ UNCHANGED cpc
    /\ ReaddirFrame

\* READDIR, the listing of the folder failing (ListFolder returns an error).
WorkerReaddirListFails ==
    /\ cpc = "open"
    /\ Len(cOut.hist) < MaxReaddirs
    /\ ~cOut.dir.listed
    /\ LET Readdir == [n \in 0..ReaddirBatch |->
                          [stats |-> <<>>, err |-> "EIO", dir |-> cOut.dir]]
       IN ReaddirAnswered(Readdir)
    /\ UNCHANGED cpc
    /\ ReaddirFrame

ReaddirNext == ReaddirOpen \/ WorkerReaddirCall \/ WorkerReaddirListFails

\* Up to MaxReaddirs READDIR requests on a folder of every size of DirSizes.
ReaddirSpec == CodecInitWith({[n |-> n] : n \in DirSizes}) /\ [][ReaddirNext]_vars

(***************************************************************************)
(* extradbx.Upload: a writer goroutine calling Write and Close, and the    *)
(* doUpload goroutine, joined by an io.Pipe and the channel errChan.  The  *)
(* i-th byte written has the value i.  The Dropbox client reads the body   *)
(* of a call up to io.EOF and succeeds, or fails at any moment.  cOut is   *)
(* the record                                                              *)
(*   wpc      where the writer is: "idle", "writing" (blocked in           *)
(*            pipeWriter.Write), "written" (its bytes were taken),         *)
(*            "closing" (receiving from errChan), "closed"                 *)
(*   buf      the bytes of the blocked Write not yet read                  *)
(*   sent     number of bytes handed to Write so far                       *)
(*   wfail    a Write returned an error                                    *)
(*   wclosed  pipeWriter.Close was called                                  *)
(*   werr     what the write side was first closed with: "EOF" by Close,   *)
(*            "ErrCanceled" by Cancel, or "nil"                            *)
(*   rerr     the error of pipe.CloseWithError, or "nil"                   *)
(*   dpc      where doUpload is: "loop", "call", "finish", "send" (at the  *)
(*            send on errChan), "done"                                     *)
(*   sig      the result doUpload is about to send                         *)
(*   nLoops, N, offset, sessionId   its variables (N is limitedReader.N)   *)
(*   calls    the calls the client received, each with the bytes it read   *)
(*   errChan  the buffered channel                                         *)
(*   closeRet what Close returned, or "none"                               *)
(***************************************************************************)
UploadFrame == UNCHANGED <<cIn, cWire, cWire2, cpc>> /\ CodecFrame

\* A call of the Dropbox client: its cursor is <<>> or <<session, offset>>.
ClientCall(op, cursor, path) == [op |-> op, cursor |-> cursor, path |-> path, data |-> <<>>]

\* offset after a call that counts every call as a whole chunk.
nextOffsetWholeChunk(offset, N) == offset + chunkSize

\* offset += (chunkSize - limitedReader.N)
nextOffset(offset, N) == offset + (chunkSize - N)

\* NewUpload(client, fpath): the pipe, the channel, and doUpload started.
NewUpload ==
    /\ cpc = "start"
    /\ cOut' = [wpc |-> "idle", buf |-> <<>>, sent |-> 0, wfail |-> FALSE,
                wclosed |-> FALSE, werr |-> "nil", rerr |-> "nil",
                dpc |-> "loop", sig |-> "nil", nLoops |-> 0, N |-> 0, offset |-> 0, sessionId |-> "",
                calls |-> <<>>, errChan |-> <<>>, closeRet |-> "none"]
    /\ cpc' = "upload"
    /\ UNCHANGED <<cIn, cWire, cWire2>>
    /\ CodecFrame

\* u.Write(buf) on an open pipe: the writer blocks with its bytes.
UploadWrite ==
    /\ cpc = "upload"
    /\ cOut.wpc = "idle"
    /\ cOut.rerr = "nil"
    /\ cOut.werr = "nil"
    /\ \E k \in 0..MaxWrite :
         /\ cOut.sent + k <= MaxUpload
         /\ cOut' = [cOut EXCEPT !.wpc = "writing",
                                 !.buf = [i \in 1..k |-> cOut.sent + i],
                                 !.sent = cOut.sent + k]
    /\ UploadFrame

\* u.Write(buf) after doUpload closed the pipe with an error or Cancel
\* closed it, or the blocked Write woken by that: Write returns an error.
UploadWriteFails ==
    /\ cpc = "upload"
    /\ cOut.wpc \in {"idle", "writing"}
    /\ cOut.rerr # "nil" \/ cOut.werr # "nil"
    /\ cOut' = [cOut EXCEPT !.wpc = "idle", !.buf = <<>>, !.wfail = TRUE]
    /\ UploadFrame

\* pipeWriter.Write returns once all its bytes were read.
UploadWriteReturns ==
    /\ cpc = "upload"
    /\ cOut.wpc = "written"
    /\ cOut' = [cOut EXCEPT !.wpc = "idle"]
    /\ UploadFrame

\* The top of the loop of doUpload: a LimitedReader of chunkSize bytes is
\* passed to UploadSessionStart the first time and to
\* UploadSessionAppendV2, with the cursor (sessionId, offset), afterwards.
UploadCallBegins ==
    /\ cpc = "upload"
    /\ cOut.dpc = "loop"
    /\ cOut' = [cOut EXCEPT
         !.dpc = "call",
         !.N = chunkSize,
         !.calls = Append(@, IF cOut.nLoops = 0
                             THEN ClientCall("UploadSessionStart", <<>>, "")
                             ELSE ClientCall("UploadSessionAppendV2",
                                             <<cOut.sessionId, cOut.offset>>, ""))]
    /\ UploadFrame

\* The client reads from the LimitedReader: at most N bytes of the blocked
\* Write (none of an empty Write).
UploadClientReads ==
    /\ cpc = "upload"
    /\ cOut.dpc = "call"
    /\ cOut.N > 0
    /\ cOut.wpc = "writing"
    /\ cOut.werr = "nil"
    /\ \E k \in 0..Len(cOut.buf) :
         /\ k <= cOut.N
         /\ k > 0 \/ Len(cOut.buf) = 0
         /\ cOut' = [cOut EXCEPT
              !.N = @ - k,
              !.buf = SubSeq(@, k + 1, Len(@)),
              !.wpc = IF k = Len(cOut.buf) THEN "written" ELSE "writing",
              !.calls[Len(cOut.calls)].data = @ \o SubSeq(cOut.buf, 1, k)]
    /\ UploadFrame

\* The client reads io.EOF, from the LimitedReader at N = 0 or from the
\* closed pipe, and the call succeeds; the offset advances, and the loop
\* ends unless the whole chunk was read.
UploadCallReturns ==
    /\ cpc = "upload"
    /\ cOut.dpc = "call"
    /\ cOut.N = 0 \/ cOut.werr = "EOF"
    /\ cOut' = [cOut EXCEPT
         !.sessionId = IF cOut.nLoops = 0 THEN "session" ELSE @,
         !.offset = nextOffset(@, cOut.N),
         !.nLoops = IF cOut.N # 0 THEN @ ELSE @ + 1,
         !.dpc = IF cOut.N # 0 THEN "finish" ELSE "loop"]
    /\ UploadFrame

\* A signalErr that leaves the pipe open.
signalErrPipeOpen(u, err) == [u EXCEPT !.sig = err, !.dpc = "send"]

\* signalErr(err): the pipe is closed with the error, and doUpload comes
\* to the send of the error on errChan.
signalErr(u, err) == [u EXCEPT !.rerr = err, !.sig = err, !.dpc = "send"]

\* UploadSessionStart or UploadSessionAppendV2 returns an error.
UploadCallFails ==
    /\ cpc = "upload"
    /\ cOut.dpc = "call"
    /\ cOut' = signalErr(cOut, "EIO")
    /\ UploadFrame

\* The client reads from the pipe that Cancel closed and gets ErrCanceled:
\* the call returns an error.
UploadCallCancelled ==
    /\ cpc = "upload"
    /\ cOut.dpc = "call"
    /\ cOut.N > 0
    /\ cOut.werr = "ErrCanceled"
    /\ cOut' = signalErr(cOut, "ErrCanceled")
    /\ UploadFrame

\* UploadSessionFinish with the cursor (sessionId, offset), the commit
\* info of fpath and an empty body succeeds; doUpload comes to the send of
\* nil on errChan.
UploadFinish ==
    /\ cpc = "upload"
    /\ cOut.dpc = "finish"
    /\ cOut' = [cOut EXCEPT
         !.calls = Append(@, ClientCall("UploadSessionFinish",
                                        <<cOut.sessionId, cOut.offset>>, cIn.fpath)),
         !.sig = "nil",
         !.dpc = "send"]
    /\ UploadFrame

\* UploadSessionFinish returns an error.
UploadFinishFails ==
    /\ cpc = "upload"
    /\ cOut.dpc = "finish"
    /\ cOut' = signalErr([cOut EXCEPT
         !.calls = Append(@, ClientCall("UploadSessionFinish",
                                        <<cOut.sessionId, cOut.offset>>, cIn.fpath))],
         "EIO")
    /\ UploadFrame

\* errChan <- err, or errChan <- nil: the send on the channel of capacity
\* errChanCap; doUpload returns.
UploadSendsResult ==
    /\ cpc = "upload"
    /\ cOut.dpc = "send"
    /\ Len(cOut.errChan) < errChanCap
    /\ cOut' = [cOut EXCEPT !.errChan = Append(@, cOut.sig), !.dpc = "done"]
    /\ UploadFrame

\* u.Close(): pipeWriter.Close() closes the write side with io.EOF unless
\* it was closed before, and returns nil; the writer receives from errChan.
UploadClose ==
    /\ cpc = "upload"
    /\ cOut.wpc = "idle"
    /\ cOut' = [cOut EXCEPT !.wclosed = TRUE,
                            !.werr = IF @ = "nil" THEN "EOF" ELSE @,
                            !.wpc = "closing"]
    /\ UploadFrame

\* u.Cancel(), from the writer between its calls or from another
\* goroutine while a Write is blocked: the write side is closed with
\* ErrCanceled.
UploadCancel ==
    /\ cpc = "upload"
    /\ cOut.werr = "nil"
    /\ cOut' = [cOut EXCEPT !.werr = "ErrCanceled"]
    /\ UploadFrame

\* return <-u.errChan
UploadCloseReturns ==
    /\ cpc = "upload"
    /\ cOut.wpc = "closing"
    /\ cOut.errChan # <<>>
    /\ cOut' = [cOut EXCEPT !.closeRet = Head(cOut.errChan),
                            !.errChan = Tail(@),
                            !.wpc = "closed"]
    /\ UploadFrame

UploadNext ==
    \/ NewUpload
    \/ UploadWrite
    \/ UploadWriteFails
    \/ UploadWriteReturns
    \/ UploadCallBegins
    \/ UploadClientReads
    \/ UploadCallReturns
    \/ UploadCallFails
    \/ UploadCallCancelled
    \/ UploadFinish
    \/ UploadFinishFails
    \/ UploadSendsResult
    \/ UploadClose
    \/ UploadCancel
    \/ UploadCloseReturns

\* One Upload to /f: Writes of 0..MaxWrite bytes, up to MaxUpload bytes in
\* all, a Cancel or none, then Close.
UploadSpec == CodecInitWith({[fpath |-> "/f"]}) /\ [][UploadNext]_vars

\* The goroutines are scheduled and the calls of the storage API return:
\* a Write or a Close that can return does, doUpload goes on to its next
\* statement, the client reads the bytes offered to it, and a call whose
\* body came to its end or to an error returns.  Nothing is assumed of
\* when the writer calls Write, Close or Cancel, or of a call failing.
UploadFairness ==
    /\ WF_vars(UploadWriteReturns)
    /\ WF_vars(UploadWriteFails /\ cOut.wpc = "writing")
    /\ WF_vars(UploadCloseReturns)
    /\ WF_vars(UploadCallBegins)
    /\ WF_vars(UploadClientReads)
    /\ WF_vars(UploadCallReturns)
    /\ WF_vars(UploadCallCancelled)
    /\ WF_vars(UploadFinish \/ UploadFinishFails)
    /\ WF_vars(UploadSendsResult)

UploadFairSpec == UploadSpec /\ UploadFairness

(***************************************************************************)
(* dbxfs.FileHandle.  A handle is the record of its fields isDir,          *)
(* openForReading, openForWriting, writer (TRUE once the Upload exists),   *)
(* writeOffset, and of its listing: listed (whether f.dirEntTempFile is    *)
(* set), tempFile (the entries encoded into the file) and pos (the number  *)
(* of entries the decoder has read).                                       *)
(*                                                                         *)
(* WriteAt and Close on a handle.  cOut holds the handle (f), the bytes    *)
(* the Upload was handed and took (stream), whether its Write has failed   *)
(* (failed), what the last Close returned (closeRet, "none" before it),    *)
(* and the WriteAt calls made so far (hist): the offset and buffer of      *)
(* each, what it returned, the length of stream when it was made and       *)
(* whether the handle was open for writing then (open).                    *)
(***************************************************************************)
\* The handle Fs.Create returns, and the one Fs.Open returns for a file or
\* a folder.
NewFileHandle(isDir, forReading, forWriting) ==
    [isDir |-> isDir, openForReading |-> forReading, openForWriting |-> forWriting,
     writer |-> FALSE, writeOffset |-> 0,
     listed |-> FALSE, tempFile |-> <<>>, pos |-> 0]

\* f.Close(), wr being what f.writer.Close() does when it is called: it
\* returns nil or an error, or never returns ("blocks").  The handle is
\* marked not open and its listing is dropped before the writer is
\* closed; f.writer is cleared only when its Close returned nil.
FileHandleClose(f, wr) ==
    LET g == [f EXCEPT !.openForReading = FALSE, !.openForWriting = FALSE,
                       !.listed = FALSE, !.tempFile = <<>>, !.pos = 0]
    IN IF f.writer /\ wr # "nil" THEN [f |-> g, err |-> wr]
       ELSE [f |-> [g EXCEPT !.writer = FALSE], err |-> "nil"]

\* A WriteAt that does not compare off with f.writeOffset.  wr is what
\* f.writer.Write(b) returns when it is called: (n, err).
WriteAtAnyOffset(f, b, off, wr) ==
    IF f.isDir THEN [f |-> f, n |-> 0, err |-> "ErrNotFile", passed |-> <<>>]
    ELSE IF ~f.openForWriting THEN [f |-> f, n |-> 0, err |-> "ErrNotOpen", passed |-> <<>>]
    ELSE [f |-> [f EXCEPT !.writer = TRUE, !.writeOffset = @ + wr.n],
          n |-> wr.n, err |-> wr.err, passed |-> SubSeq(b, 1, wr.n)]

\* f.WriteAt(b, off); passed is what the Upload took of b.
WriteAt(f, b, off, wr) ==
    IF f.isDir THEN [f |-> f, n |-> 0, err |-> "ErrNotFile", passed |-> <<>>]
    ELSE IF ~f.openForWriting THEN [f |-> f, n |-> 0, err |-> "ErrNotOpen", passed |-> <<>>]
    ELSE IF off # f.writeOffset
    THEN [f |-> [f EXCEPT !.writer = TRUE], n |-> 0, err |-> "ErrBadReadWriteOffset",
          passed |-> <<>>]
    ELSE [f |-> [f EXCEPT !.writer = TRUE, !.writeOffset = @ + wr.n],
          n |-> wr.n, err |-> wr.err, passed |-> SubSeq(b, 1, wr.n)]

\* The handles Fs.Create and Fs.Open return: a file open for writing, a
\* file open for reading, a directory.
DbxHandles ==
    {NewFileHandle(FALSE, FALSE, TRUE),
     NewFileHandle(FALSE, TRUE, FALSE),
     NewFileHandle(TRUE, TRUE, FALSE)}

\* fs.Create(fpath) or fs.Open(fpath) returned the handle.
DbxOpen ==
    /\ cpc = "start"
    /\ cOut' = [f |-> cIn.f, stream |-> <<>>, failed |-> FALSE, closeRet |-> "none",
                hist |-> <<>>]
    /\ cpc' = "file"
    /\ UNCHANGED <<cIn, cWire, cWire2>>
    /\ CodecFrame

\* The k-th WriteAt of the handle; the j-th byte of its buffer is 10k + j.
\* The Write of the Upload takes all of the buffer and returns nil, or
\* takes a part of it and fails; a Write of no bytes returns nil when the
\* uploader took it and an error when the uploader had closed the pipe;
\* once a Write has failed every Write takes nothing and fails.
DbxWriteAt ==
    /\ cpc = "file"
    /\ Len(cOut.hist) < MaxWriteAts
    /\ \E len \in 0..MaxBuf, off \in 0..(MaxWriteAts * MaxBuf), took \in 0..MaxBuf,
          werr \in {"nil", "EIO"} :
         /\ took <= len
         /\ cOut.failed => (took = 0 /\ werr = "EIO")
         /\ took < len => werr = "EIO"
         /\ (took = len /\ len > 0) => werr = "nil"
         /\ LET k == Len(cOut.hist) + 1
                b == [j \in 1..len |-> 10 * k + j]
                wr == [n |-> took, err |-> werr]
                ret == WriteAt(cOut.f, b, off, wr)
            IN cOut' = [cOut EXCEPT
                 !.f = ret.f,
                 !.stream = @ \o ret.passed,
                 !.failed = @ \/ ret.err = "EIO",
                 !.hist = Append(@, [off |-> off, b |-> b, n |-> ret.n, err |-> ret.err,
                                     before |-> Len(cOut.stream),
                                     open |-> cOut.f.openForWriting])]
    /\ UNCHANGED <<cIn, cWire, cWire2, cpc>>
    /\ CodecFrame

\* f.Close().  The Close of the Upload returns the result of the upload:
\* an error when a Write has failed, nil or an error otherwise; it can be
\* received once, so that the Close of the Upload made by a second
\* f.Close(), after the first returned the error and kept f.writer, never
\* returns.
DbxWriteClose ==
    /\ cpc = "file"
    /\ \E wr \in {"nil", "EIO", "blocks"} :
         /\ wr = "blocks" <=> cOut.closeRet = "EIO"
         /\ cOut.failed => wr # "nil"
         /\ LET ret == FileHandleClose(cOut.f, wr)
            IN /\ cOut' = [cOut EXCEPT !.f = ret.f,
                                       !.closeRet = IF ret.err = "blocks" THEN @ ELSE ret.err]
               /\ cpc' = IF ret.err = "blocks" THEN "blocked" ELSE "file"
    /\ UNCHANGED <<cIn, cWire, cWire2>>
    /\ CodecFrame

DbxWriteNext == DbxOpen \/ DbxWriteAt \/ DbxWriteClose

\* Up to MaxWriteAts WriteAt calls on a handle, and Close at any moment.
DbxWriteSpec == CodecInitWith({[f |-> f] : f \in DbxHandles}) /\ [][DbxWriteNext]_vars

(***************************************************************************)
(* dbxfs.FileHandle.Readdir and Close.  The folder is what ListFolder and  *)
(* ListFolderContinue return: a sequence of pages of entries (cIn.pages).  *)
(* cOut holds the handle (f) and the Readdir calls made so far (hist):     *)
(* the argument of each, what it returned and whether the handle was open  *)
(* for reading then (open).                                                *)
(***************************************************************************)
\* The entries of the pages, one page after the other.
RECURSIVE Flatten(_)
Flatten(pages) == IF pages = <<>> THEN <<>> ELSE Head(pages) \o Flatten(Tail(pages))

\* A Readdir that returns an empty batch at the end of the folder.
FileHandleReaddirNoEOF(f, n, pages, listErr) ==
    IF ~f.isDir THEN [stats |-> <<>>, err |-> "ErrNotDir", f |-> f]
    ELSE IF ~f.openForReading THEN [stats |-> <<>>, err |-> "ErrNotOpen", f |-> f]
    ELSE IF ~f.listed /\ listErr # "nil"
    THEN [stats |-> <<>>, err |-> listErr, f |-> f]
    ELSE LET file == IF ~f.listed THEN Flatten(pages) ELSE f.tempFile
             left == Len(file) - f.pos
             k == IF n <= 0 \/ left < n THEN left ELSE n
         IN [stats |-> SubSeq(file, f.pos + 1, f.pos + k),
             err |-> "nil",
             f |-> [f EXCEPT !.listed = TRUE, !.tempFile = file, !.pos = @ + k]]

\* f.Readdir(n), ListFolder (or a ListFolderContinue) returning listErr
\* when it is called.  Decoding stops at n entries or at the end of the
\* file.
FileHandleReaddir(f, n, pages, listErr) ==
    IF ~f.isDir THEN [stats |-> <<>>, err |-> "ErrNotDir", f |-> f]
    ELSE IF ~f.openForReading THEN [stats |-> <<>>, err |-> "ErrNotOpen", f |-> f]
    ELSE IF ~f.listed /\ listErr # "nil"
    THEN [stats |-> <<>>, err |-> listErr, f |-> f]
    ELSE LET file == IF ~f.listed THEN Flatten(pages) ELSE f.tempFile
             left == Len(file) - f.pos
             k == IF n <= 0 \/ left < n THEN left ELSE n
         IN [stats |-> SubSeq(file, f.pos + 1, f.pos + k),
             err |-> IF k = 0 /\ n > 0 THEN "EOF" ELSE "nil",
             f |-> [f EXCEPT !.listed = TRUE, !.tempFile = file, !.pos = @ + k]]

\* Folders: empty, one entry, two pages, and a last page that is empty.
FolderSamples ==
    {<<<<>>>>, <<<<5>>>>, <<<<3, 1>>, <<2>>>>, <<<<4, 2, 6>>, <<1, 5>>, <<>>>>}

\* The arguments of Readdir.
ReaddirArgs == {-1, 0, 1, 2, 3}

\* fs.Open(fpath) returned the handle of a folder or of a file.
DbxOpenDir ==
    /\ cpc = "start"
    /\ cOut' = [f |-> NewFileHandle(cIn.isDir, TRUE, FALSE), hist |-> <<>>]
    /\ cpc' = "dir"
    /\ UNCHANGED <<cIn, cWire, cWire2>>
    /\ CodecFrame

\* f.Readdir(n) was called and returned.
DbxReaddirReturns(n, listErr) ==
    LET ret == FileHandleReaddir(cOut.f, n, cIn.pages, listErr)
    IN cOut' = [cOut EXCEPT
         !.f = ret.f,
         !.hist = Append(@, [n |-> n, stats |-> ret.stats, err |-> ret.err,
                             open |-> cOut.f.openForReading])]

\* f.Readdir(n), the listing succeeding if it is made.
DbxReaddir ==
    /\ cpc = "dir"
    /\ Len(cOut.hist) < MaxReaddirs
    /\ \E n \in ReaddirArgs : DbxReaddirReturns(n, "nil")
    /\ UNCHANGED <<cIn, cWire, cWire2, cpc>>
    /\ CodecFrame

\* f.Readdir(n) on a folder not yet listed, the listing failing.
DbxReaddirListFails ==
    /\ cpc = "dir"
    /\ Len(cOut.hist) < MaxReaddirs
    /\ cOut.f.isDir
    /\ cOut.f.openForReading
    /\ ~cOut.f.listed
    /\ \E n \in ReaddirArgs : DbxReaddirReturns(n, "EIO")
    /\ UNCHANGED <<cIn, cWire, cWire2, cpc>>
    /\ CodecFrame

\* f.Close() on the handle, which has no writer: the handle is marked not
\* open, the temporary file is closed and removed, and Close returns nil.
DbxReaddirClose ==
    /\ cpc = "dir"
    /\ cOut' = [cOut EXCEPT !.f = FileHandleClose(@, "nil").f]
    /\ UNCHANGED <<cIn, cWire, cWire2, cpc>>
    /\ CodecFrame

DbxReaddirNext == DbxOpenDir \/ DbxReaddir \/ DbxReaddirListFails \/ DbxReaddirClose

\* Up to MaxReaddirs Readdir calls on the handle of a folder or a file,
\* and Close at any moment.
DbxReaddirSpec ==
    CodecInitWith({[isDir |-> d, pages |-> p] : d \in BOOLEAN, p \in FolderSamples})
      /\ [][DbxReaddirNext]_vars

(***************************************************************************)
(* dbxfs.doWithRetry, through Fs.Rename and Fs.Remove.  A string is the    *)
(* sequence of its characters, so that strings.HasPrefix is computed and   *)
(* not assumed.  An error is the record of nil (no error) and msg (what    *)
(* err.Error() returns).  cIn.op is the method called; cOut holds the API  *)
(* calls made so far (calls), what the last one returned (err), the        *)
(* number of sleeps (sleeps) and what doWithRetry returned (ret).          *)
(***************************************************************************)
\* The literal of fs.go:70.
TooManyWriteOperations ==
    <<"t", "o", "o", "_", "m", "a", "n", "y", "_", "w", "r", "i", "t", "e", "_",
      "o", "p", "e", "r", "a", "t", "i", "o", "n", "s">>

\* strings.HasPrefix(s, prefix): len(s) >= len(prefix) && s[:len(prefix)] == prefix
HasPrefix(s, prefix) ==
    /\ Len(s) >= Len(prefix)
    /\ SubSeq(s, 1, Len(prefix)) = prefix

NilError == [nil |-> TRUE, msg |-> <<>>]

ErrorOf(msg) == [nil |-> FALSE, msg |-> msg]

\* What MoveV2 and DeleteV2 can return: no error, the error summary of a
\* rate-limited write as the API sends it (the tag followed by "/" and
\* dots), the bare tag, a beginning of the tag, an empty message, another
\* tag that starts alike, and an unrelated error.
ApiResults ==
    {NilError,
     ErrorOf(TooManyWriteOperations \o <<"/", ".", ".">>),
     ErrorOf(TooManyWriteOperations),
     ErrorOf(<<"t", "o", "o">>),
     ErrorOf(<<>>),
     ErrorOf(<<"t", "o", "o", "_", "m", "a", "n", "y", "_", "r", "e", "q", "u", "e", "s", "t", "s">>),
     ErrorOf(<<"n", "o", "t", "_", "f", "o", "u", "n", "d", "/", ".">>)}

\* The test of doWithRetry on what f returned: whether it goes to again.
goesAgain(err) ==
    /\ ~err.nil
    /\ HasPrefix(TooManyWriteOperations, err.msg)

\* The API call that the closure of the method makes.
ApiCallOf(op) == IF op = "Rename" THEN "MoveV2" ELSE "DeleteV2"

\* fs.Rename(from, to) or fs.Remove(fpath) is called: doWithRetry starts.
RetryStart ==
    /\ cpc = "start"
    /\ cOut' = [calls |-> <<>>, err |-> NilError, sleeps |-> 0, ret |-> NilError]
    /\ cpc' = "again"
    /\ UNCHANGED <<cIn, cWire, cWire2>>
    /\ CodecFrame

\* err := f(): the closure calls the API, which returns one of ApiResults.
RetryCall ==
    /\ cpc = "again"
    /\ Len(cOut.calls) < MaxInvocations
    /\ \E e \in ApiResults :
        cOut' = [cOut EXCEPT !.calls = Append(@, [api |-> ApiCallOf(cIn.op), err |-> e]),
                             !.err = e]
    /\ cpc' = "called"
    /\ UNCHANGED <<cIn, cWire, cWire2>>
    /\ CodecFrame

\* The test passes: time.Sleep(100 * time.Millisecond); goto again
RetrySleep ==
    /\ cpc = "called"
    /\ goesAgain(cOut.err)
    /\ cOut' = [cOut EXCEPT !.sleeps = @ + 1]
    /\ cpc' = "again"
    /\ UNCHANGED <<cIn, cWire, cWire2>>
    /\ CodecFrame

\* return err
RetryReturn ==
    /\ cpc = "called"
    /\ ~goesAgain(cOut.err)
    /\ cOut' = [cOut EXCEPT !.ret = cOut.err]
    /\ cpc' = "returned"
    /\ UNCHANGED <<cIn, cWire, cWire2>>
    /\ CodecFrame

RetryNext == RetryStart \/ RetryCall \/ RetrySleep \/ RetryReturn

\* A Rename or a Remove with up to MaxInvocations calls of the API.
RetrySpec == CodecInitWith({[op |-> op] : op \in {"Rename", "Remove"}}) /\ [][RetryNext]_vars

(***************************************************************************)
(* Properties of the session engine.                                       *)
(***************************************************************************)
\* The IDs of a log of file calls.
OpIds(ops) == [i \in DOMAIN ops |-> ops[i].id]

IsIncreasing(q) == \A i, j \in DOMAIN q : i < j => q[i] < q[j]

\* p is q with some elements left out.
RECURSIVE IsSubSeq(_, _)
IsSubSeq(p, q) ==
    IF p = <<>> THEN TRUE
    ELSE IF q = <<>> THEN FALSE
    ELSE IF Head(p) = Head(q) THEN IsSubSeq(Tail(p), Tail(q))
    ELSE IsSubSeq(p, Tail(q))

\* The dispatcher takes the next request from the inbox in this step.
TakesFromInbox == dpc = "select" /\ inbox # <<>> /\ Len(inbox') < Len(inbox)

\* Request i is in the hands of the dispatcher or of a worker.
InFlight(i) ==
    \/ dpc \in {"call", "respond", "forward"} /\ dReq.id = i
    \/ \E n \in Workers : wpc[n] \in {"exec", "respond"} /\ wReq[n].id = i

\* A CLOSE was dispatched to worker n: it waits to be forwarded, is being
\* processed, or was processed.
CloseDispatched(n) ==
    \/ dpc = "forward" /\ dTo = n /\ dReq.kind = "CLOSE"
    \/ wpc[n] \in {"exec", "respond"} /\ wReq[n].kind = "CLOSE"
    \/ \E i \in DOMAIN fileOps[n] : fileOps[n][i].op = "Close"

\* C1: on every handle the backend file calls are made in the order in
\* which their requests were read from the wire (request IDs number the
\* wire positions), and they are calls of requests forwarded to that
\* handle, in forwarding order.
C1_PerHandleWireOrder ==
    \A n \in Workers :
        /\ IsIncreasing(OpIds(fileOps[n]))
        /\ IsSubSeq(OpIds(fileOps[n]), fwd[n])

\* Two WRITEs were forwarded to one handle and the second write_at has
\* been made after the first.
C1_Witness ==
    \E n \in Workers :
        /\ Len(fileOps[n]) = 2
        /\ fileOps[n][1].op = "WriteAt"
        /\ fileOps[n][2].op = "WriteAt"

\* C2: a request ID gets no response before the dispatcher took the
\* request, never two responses, and exactly one once the request has left
\* the hands of the dispatcher and the workers, unless the shutdown signal
\* has fired.
C2_ExactlyOneResponse ==
    \A i \in 1..MaxReqs :
        /\ posted[i] <= 1
        /\ i \notin taken => posted[i] = 0
        /\ (i \in taken /\ ~InFlight(i) /\ ~closed) => posted[i] = 1

\* All requests were taken and answered, one of them by a worker and one
\* by the dispatcher, and the session is still up.
C2_Witness ==
    /\ ~closed
    /\ \A i \in 1..MaxReqs : i \in taken /\ ~InFlight(i) /\ posted[i] = 1
    /\ \E n \in Workers : fileOps[n] # <<>>

\* C3: Close is the last call made on a file and is made at most once; it
\* is the call of a CLOSE request, the last request forwarded to the
\* handle, made when every request forwarded before has been processed;
\* after it the worker only posts the response and exits.
C3_CloseOnceAndLast ==
    \A n \in Workers :
        /\ \A i \in DOMAIN fileOps[n] :
              fileOps[n][i].op = "Close" =>
                 /\ i = Len(fileOps[n])
                 /\ fileOps[n][i].id = fwd[n][Len(fwd[n])]
                 /\ wpc[n] \in {"respond", "exited"}
                 /\ wpc[n] = "respond" =>
                       wReq[n].kind = "CLOSE" /\ wReq[n].id = fileOps[n][i].id
        /\ wpc[n] = "exited" =>
              fileOps[n] # <<>> /\ fileOps[n][Len(fileOps[n])].op = "Close"

\* A file was written, then closed, and its worker has exited.
C3_Witness ==
    \E n \in Workers :
        /\ wpc[n] = "exited"
        /\ Len(fileOps[n]) = 2
        /\ fileOps[n][2].op = "Close"

\* C4: once a CLOSE naming a handle of the table has been dispatched, the
\* handle is not in the table, and every READ, WRITE, FSTAT, READDIR or
\* CLOSE the dispatcher then takes that names the handle goes to
\* respondError(ErrInvalidHandle), an FX_FAILURE status with the request's
\* ID, and is not forwarded.
C4_ClosedHandleInvalid ==
    [][\A n \in Workers :
          (CloseDispatched(n) /\ n < Len(minted)) =>
             /\ minted[n + 1] \notin DOMAIN files
             /\ (/\ TakesFromInbox
                 /\ Head(inbox).kind \in {"READ", "WRITE", "FSTAT", "READDIR", "CLOSE"}
                 /\ Head(inbox).handle = minted[n + 1])
                => /\ dpc' = "respond"
                   /\ dErr' = "ErrInvalidHandle"
                   /\ dResp'.type = "STATUS"
                   /\ dResp'.code = FX_FAILURE
                   /\ dResp'.id = Head(inbox).id
                   /\ fwd' = fwd]_vars

\* A request naming a handle whose CLOSE was dispatched is being answered.
C4_Witness ==
    /\ dpc = "respond"
    /\ dErr = "ErrInvalidHandle"
    /\ dReq.kind = "READ"
    /\ \E n \in Workers :
          CloseDispatched(n) /\ n < Len(minted) /\ minted[n + 1] = dReq.handle

\* C5 (as claimed): an OPEN or OPENDIR taken while Options.MaxFiles
\* handles are in the table is answered with an FX_FAILURE status and
\* makes no backend call.
C5_RefusedAtMaxFiles ==
    [][(/\ TakesFromInbox
        /\ Head(inbox).kind \in {"OPEN", "OPENDIR"}
        /\ Cardinality(DOMAIN files) = optMaxFiles)
       => /\ dpc' = "respond"
          /\ dResp'.type = "STATUS"
          /\ dResp'.code = FX_FAILURE
          /\ vfsCalls' = <<>>
          /\ files' = files]_vars

\* C6: the i-th handle id minted in a session is the decimal string of
\* i - 1, and no id is minted twice.
C6_HandleIdsFromCounter ==
    /\ \A i \in DOMAIN minted : minted[i] = Itoa(i - 1)
    /\ \A i, j \in DOMAIN minted : i # j => minted[i] # minted[j]
    /\ fcounter = Len(minted)

\* A handle was opened and closed, and the next open got a new id.
C6_Witness ==
    /\ Len(minted) = 2
    /\ DOMAIN files = {minted[2]}
    /\ \E n \in Workers : wpc[n] = "exited"

\* The number of responses sent to the outbox.
RECURSIVE SumPosted(_)
SumPosted(k) == IF k < 0 THEN 0 ELSE posted[k] + SumPosted(k - 1)

\* Every request read from the wire has been answered.
AllAnswered == nRead > 0 /\ rpc # "send" /\ SumPosted(MaxReqs) = nRead

\* C7 (as claimed): when every request has been answered, the table holds
\* (HANDLE responses) - (FX_OK responses to CLOSE) entries.
C7_TableSizeByOkCloses ==
    AllAnswered => Cardinality(DOMAIN files) = nOpenOk - nCloseOk

\* C7 (amended): when every request has been answered, the table holds
\* (HANDLE responses) - (CLOSE requests that named a handle of the table)
\* entries, whatever the backend Close returned.
C7_TableSizeByDispatchedCloses ==
    AllAnswered => Cardinality(DOMAIN files) = nOpenOk - nCloseFwd

\* Two handles were opened and one was closed, the backend Close failing.
C7_Witness ==
    /\ AllAnswered
    /\ nOpenOk = 2
    /\ nCloseFwd = 1
    /\ nCloseOk = 0
    /\ Cardinality(DOMAIN files) = 1

\* C8 (as claimed): a FSTAT, READ, WRITE, READDIR, CLOSE or FSETSTAT that
\* names a handle not in the table goes to an FX_FAILURE status with the
\* request's ID; the table is unchanged, no backend call is made and the
\* shutdown signal is not fired.
C8_BogusHandleRefused ==
    [][(/\ TakesFromInbox
        /\ Head(inbox).kind \in HandleKinds
        /\ Head(inbox).handle \notin DOMAIN files)
       => /\ dpc' = "respond"
          /\ dResp'.type = "STATUS"
          /\ dResp'.code = FX_FAILURE
          /\ dResp'.id = Head(inbox).id
          /\ files' = files
          /\ vfsCalls' = <<>>
          /\ fileOps' = fileOps
          /\ closed' = closed]_vars

\* C9 (as claimed): the shutdown signal is fired by a task that exits
\* because ReadPacket or WritePacket returned an error, never by the
\* processing of a decoded request.
C9_OnlyCodecOrTransportFatal ==
    closed => closedBy \in {"ReadPacket", "WritePacket"}

\* C10 (as claimed): a writer whose WritePacket failed leaves the error
\* branch only by firing the shutdown signal and exiting.
C10_WriteErrorShutsDown ==
    [][wrpc = "failed" => (wrpc' = "failed" \/ (wrpc' = "done" /\ closed'))]_vars

\* C11: when ReadPacket fails, the reader posts nothing to the inbox, runs
\* shutdown (the signal is fired, the wait counter goes down by one) and
\* exits: it never reads or posts again.  Only a packet ReadPacket decoded
\* is ever posted.
C11_ReadFailureStopsReader ==
    [][/\ (rpc = "read" /\ rpc' = "done") =>
             /\ inbox' = inbox
             /\ nRead' = nRead
             /\ closed'
             /\ wg' = wg - 1
       /\ rpc = "done" => (rpc' = "done" /\ nRead' = nRead /\ Len(inbox') <= Len(inbox))
       /\ Len(inbox') > Len(inbox) =>
             (rpc = "send" /\ rReq # NoReq /\ inbox' = Append(inbox, rReq))]_vars

\* Two frames were decoded and posted, the third read failed: the reader
\* has exited, the signal is fired by it, and the inbox holds what was
\* posted before.
C11_Witness ==
    /\ rpc = "done"
    /\ closedBy = "ReadPacket"
    /\ nRead = 2
    /\ Len(inbox) = 2

\* Serve has returned: the three goroutines it waits for have exited.
ServeReturned == wg = 0 /\ rpc = "done" /\ wrpc = "done" /\ dpc = "done"

\* Worker n is blocked on a channel operation: the receive from its
\* reqChan, or the send of Respond.
WorkerBlocked(n) == wpc[n] \in {"idle", "respond"}

\* C12 (as claimed): once the shutdown signal has fired, no task stays
\* blocked on a channel operation: the reader, the dispatcher and the
\* writer exit, Serve returns, and no handle worker is left blocked.
C12_NoTaskBlockedForever ==
    closed ~> (ServeReturned /\ \A n \in Workers : ~WorkerBlocked(n))

\* The part of C12 about the three goroutines of Serve: once the signal
\* has fired they exit and Serve returns.
ServeReturnsAfterShutdown == closed ~> ServeReturned

\* C13 (as claimed): when Serve has returned, every handle still in the
\* table has had its backend file closed and its worker has exited.
C13_HandlesReclaimedAtReturn ==
    ServeReturned =>
        \A h \in DOMAIN files :
            /\ wpc[files[h]] = "exited"
            /\ \E i \in DOMAIN fileOps[files[h]] : fileOps[files[h]][i].op = "Close"

\* The number of goroutines of Serve that have exited.
ExitedTasks ==
    (IF rpc = "done" THEN 1 ELSE 0) + (IF wrpc = "done" THEN 1 ELSE 0)
      + (IF dpc = "done" THEN 1 ELSE 0)

\* C14: s.closed is closed at most once, by the first task that exits;
\* once closed it stays closed; and the wait counter is NumTasks less the
\* number of tasks that have exited, each exit taking one from it.
C14_ShutdownSingleShot ==
    /\ [](/\ nCloses <= 1
          /\ closed <=> (nCloses = 1)
          /\ closed <=> (ExitedTasks > 0)
          /\ wg = NumTasks - ExitedTasks)
    /\ [][/\ closed => closed'
          /\ nCloses' >= nCloses
          /\ wg' \in {wg, wg - 1}]_vars

\* The three tasks have exited, the dispatcher first (it closed s.closed);
\* the channel was closed once and the wait counter is zero.
C14_Witness ==
    /\ ServeReturned
    /\ closedBy = "unimplemented"
    /\ nCloses = 1
    /\ closed

\* C15 (as claimed): after the shutdown signal has fired the writer takes
\* nothing further from the outbox (so that no response other than one
\* whose WritePacket was already in progress is written).
C15_WriterStopsAtShutdown ==
    [][closed => ~(wrpc = "select" /\ wrpc' = "write" /\ Len(outbox') < Len(outbox))]_vars

\* C16 (as claimed): in a session started with -read-only the backend gets
\* no Mkdir, Remove, Rename or Chmod, no OpenFile of an OPEN that asks for
\* write, create, truncate or append, and no WriteAt; and an OPEN with
\* pflags FXF_WRITE|FXF_CREAT is answered FX_PERMISSION_DENIED.
C16_ReadOnlyNeverMutates ==
    optReadOnly =>
        /\ \A i \in DOMAIN vfsCalls : vfsCalls[i] \notin {"Mkdir", "Remove", "Rename", "Chmod"}
        /\ \A n \in Workers : \A i \in DOMAIN fileOps[n] : fileOps[n][i].op # "WriteAt"
        /\ (dpc = "respond" /\ dReq.kind = "OPEN") =>
              /\ BitAnd(dReq.pflags, FXF_WRITE + FXF_CREAT + FXF_TRUNC + FXF_APPEND) # 0
                    => vfsCalls = <<>>
              /\ (dReq.pflags = FXF_WRITE + FXF_CREAT) =>
                    (dResp.type = "STATUS" /\ dResp.code = FX_PERMISSION_DENIED)

\* A call that changes the file system: Chmod, Mkdir, Remove, Rename, a
\* file Write, WriteAt or Chmod, or an OpenFile whose flags ask for write
\* access (O_WRONLY or O_RDWR), create, truncate or append.
Mutating(call) ==
    \/ call.op \in {"Chmod", "Mkdir", "Remove", "Rename", "Write", "WriteAt"}
    \/ /\ call.op = "OpenFile"
       /\ BitAnd(call.flag, O_WRONLY + O_RDWR + O_CREATE + O_TRUNC + O_APPEND) # 0

\* C17: the underlying VFS never receives a mutating call; a mutating call
\* on the wrapper returns the permission error and reaches nothing, and
\* every other call reaches the underlying object with the same method
\* and flags, exactly once.
C17_ReadOnlyWrapper ==
    /\ [](\A i \in DOMAIN roUnder : ~Mutating(roUnder[i]))
    /\ [][roN' = roN + 1 =>
            IF Mutating(roLast')
            THEN roUnder' = roUnder /\ roRet' = "ErrPermission"
            ELSE roUnder' = Append(roUnder, roLast')]_vars

\* Three calls were made: a read-only OpenFile, which the underlying VFS
\* got, a call that was denied and reached nothing, and the Close of the
\* file, which the underlying file got.
C17_Witness ==
    /\ roN = 3
    /\ Len(roUnder) = 2
    /\ roUnder[1] = Call("vfs", "OpenFile", O_RDONLY)
    /\ roUnder[2] = Call("file", "Close", 0)
    /\ roLast = Call("file", "Close", 0)

\* C18 (as claimed): the bytes WritePacket writes for a packet are read
\* back by ReadPacket without error, and writing the packet read gives
\* the same bytes.
C18_EncodeDecodeEncode ==
    /\ cpc \in {"decoded", "reencoded"} => cOut.err = "nil"
    /\ cpc = "reencoded" => cWire2 = cWire

\* The bytes of a FileStat on the wire, by the layout of the protocol:
\* flags, then size, (uid, gid), permissions, (atime, mtime) for the
\* flags that are set.
FileStatWire(a) ==
    marshalUint32(<<>>, a.Flags)
      \o (IF BitAnd(a.Flags, FILEXFER_ATTR_SIZE) # 0
          THEN marshalUint32(marshalUint32(<<>>, a.Size.hi), a.Size.lo) ELSE <<>>)
      \o (IF BitAnd(a.Flags, FILEXFER_ATTR_UIDGID) # 0
          THEN marshalUint32(marshalUint32(<<>>, a.UID), a.GID) ELSE <<>>)
      \o (IF BitAnd(a.Flags, FILEXFER_ATTR_PERMISSIONS) # 0
          THEN marshalUint32(<<>>, a.Mode) ELSE <<>>)
      \o (IF BitAnd(a.Flags, FILEXFER_ATTR_ACMODTIME) # 0
          THEN marshalUint32(marshalUint32(<<>>, a.Atime), a.Mtime) ELSE <<>>)

\* C19 (as claimed): a FileStat is marshalled in the order size, (uid,
\* gid), permissions, (atime, mtime); unmarshalling those bytes succeeds,
\* uses them all up and gives back the flags and every field the flags
\* select.
C19_FileStatRoundTrip ==
    /\ cpc \in {"encoded", "decoded"} => cWire = FileStatWire(cIn)
    /\ cpc = "decoded" =>
          /\ cOut.err = "nil"
          /\ cOut.b = <<>>
          /\ cOut.stat.Flags = cIn.Flags
          /\ BitAnd(cIn.Flags, FILEXFER_ATTR_SIZE) # 0 => cOut.stat.Size = cIn.Size
          /\ BitAnd(cIn.Flags, FILEXFER_ATTR_UIDGID) # 0 =>
                (cOut.stat.UID = cIn.UID /\ cOut.stat.GID = cIn.GID)
          /\ BitAnd(cIn.Flags, FILEXFER_ATTR_PERMISSIONS) # 0 => cOut.stat.Mode = cIn.Mode
          /\ BitAnd(cIn.Flags, FILEXFER_ATTR_ACMODTIME) # 0 =>
                (cOut.stat.Atime = cIn.Atime /\ cOut.stat.Mtime = cIn.Mtime)

\* The length the first four bytes of a stream declare.
DeclaredLen(data) == data[1] * 16777216 + data[2] * 65536 + data[3] * 256 + data[4]

\* The smaller of two numbers.
Min(a, b) == IF a < b THEN a ELSE b

\* C20: on a stream that holds a whole header, ReadPacket refuses a
\* declared length below 2 as too small and one above 1048576 as too
\* large, having read the four header bytes and no body byte; every
\* length from 2 to 1048576 passes the test, and ReadPacket goes on to
\* read that many body bytes (or as many as the stream holds).
C20_FrameLengthBounds ==
    (cpc = "decoded" /\ Len(cIn.data) >= 4) =>
        LET l == DeclaredLen(cIn.data)
        IN /\ l < 2 =>
                (cOut.err = "packet too small" /\ cOut.hdrRead = 4 /\ cOut.bodyRead = 0)
           /\ l > 1048576 =>
                (cOut.err = "packet too large" /\ cOut.hdrRead = 4 /\ cOut.bodyRead = 0)
           /\ (2 <= l /\ l <= 1048576) =>
                /\ cOut.err \notin {"packet too small", "packet too large"}
                /\ cOut.hdrRead = 4
                /\ cOut.bodyRead = Min(l, Len(cIn.data) - 4)

\* A header declaring exactly 1048576 was accepted: ReadPacket went on
\* to the body, took the bytes the stream held and failed on its end.
C20_Witness ==
    /\ cpc = "decoded"
    /\ Len(cIn.data) > 4
    /\ DeclaredLen(cIn.data) = 1048576
    /\ cOut.err = "ErrUnexpectedEOF"
    /\ cOut.bodyRead = Len(cIn.data) - 4

\* C21 (as claimed): UnmarshalBinary of a request body cut short at any
\* length below its own returns the short-packet error.
C21_TruncatedBodyIsShort ==
    cpc = "decoded" => cOut.err = "errShortPacket"

\* C22 (as claimed): respondError answers io.EOF with FX_EOF, an error
\* that says the file does not exist (os.ErrNotExist, or a path error
\* around ENOENT) with FX_NO_SUCH_FILE, a permission error
\* (os.ErrPermission, or a path error around EACCES) with
\* FX_PERMISSION_DENIED, ErrUnsupported with FX_OP_UNSUPPORTED, and
\* ErrTooManyOpenFiles, ErrInvalidHandle and every other error with
\* FX_FAILURE; the status carries the ID it was called with and an empty
\* lang.
C22_ErrorMapping ==
    (cpc = "returned" /\ cIn.op = "respondError") =>
        /\ cOut.resp.type = "STATUS"
        /\ cOut.resp.id = cIn.id
        /\ cOut.resp.lang = ""
        /\ cOut.resp.code =
             CASE cIn.err = "EOF" -> 1
               [] cIn.err \in {"ErrNotExist", "PathError(ENOENT)"} -> 2
               [] cIn.err \in {"ErrPermission", "PathError(EACCES)"} -> 3
               [] cIn.err = "ErrUnsupported" -> 8
               [] OTHER -> 4

\* C23 (as claimed): the FX_FAILURE status of ErrTooManyOpenFiles carries
\* the message "too many open files", and that of ErrInvalidHandle the
\* message "invalid handle".
C23_SentinelMessages ==
    (cpc = "returned" /\ cIn.op = "respondError") =>
        /\ cIn.err = "ErrTooManyOpenFiles" =>
             (cOut.resp.code = FX_FAILURE /\ cOut.resp.msg = "too many open files")
        /\ cIn.err = "ErrInvalidHandle" =>
             (cOut.resp.code = FX_FAILURE /\ cOut.resp.msg = "invalid handle")

\* The number of calls of the operation op among calls.
CountOp(calls, op) == Cardinality({i \in DOMAIN calls : calls[i].op = op})

\* C24: handleRemove on a directory and handleRmdir on a non-directory
\* answer FX_OP_UNSUPPORTED and do not call Remove; when Stat fails the
\* answer is the status of its error and Remove is not called; otherwise
\* Remove is called once, on the path of the request, and the answer is
\* FX_OK or the status of its error.
C24_RemoveAfterStat ==
    (cpc = "returned" /\ cIn.op \in {"handleRemove", "handleRmdir"}) =>
        LET refused == IF cIn.op = "handleRemove" THEN cIn.fs.isDir ELSE ~cIn.fs.isDir
            removes == CountOp(cOut.calls, "Remove")
        IN /\ cIn.fs.statErr # "nil" =>
                (removes = 0 /\ cOut.resp = respondError(cIn.req.id, cIn.fs.statErr))
           /\ (cIn.fs.statErr = "nil" /\ refused) =>
                /\ removes = 0
                /\ cOut.resp.type = "STATUS"
                /\ cOut.resp.id = cIn.req.id
                /\ cOut.resp.code = FX_OP_UNSUPPORTED
           /\ (cIn.fs.statErr = "nil" /\ ~refused) =>
                /\ removes = 1
                /\ cOut.calls[Len(cOut.calls)] = FsCall("Remove", <<cIn.req.path>>)
                /\ cIn.fs.removeErr = "nil" =>
                     (cOut.resp.type = "STATUS" /\ cOut.resp.id = cIn.req.id
                        /\ cOut.resp.code = FX_OK)
                /\ cIn.fs.removeErr # "nil" =>
                     cOut.resp = respondError(cIn.req.id, cIn.fs.removeErr)

\* RMDIR on a path that stats as a file was refused without a Remove, and
\* the backend would have removed it.
C24_Witness ==
    /\ cpc = "returned"
    /\ cIn.op = "handleRmdir"
    /\ cIn.fs.statErr = "nil"
    /\ ~cIn.fs.isDir
    /\ cIn.fs.removeErr = "nil"
    /\ cOut.resp.code = FX_OP_UNSUPPORTED
    /\ CountOp(cOut.calls, "Remove") = 0

\* Bit b (a power of two) is set in v.
HasBit(v, b) == (v \div b) % 2 = 1

\* C25: an OPEN that passes the MaxFiles test and has no pflags bit
\* outside READ, WRITE, APPEND, CREAT, TRUNC, EXCL calls OpenFile once,
\* with read+write for READ|WRITE, read-only for READ alone, write-only
\* for WRITE alone, plus the open flag of each of TRUNC, CREAT, APPEND and
\* EXCL, and with the mode attrs.Mode & 0777 when attrs has PERMISSIONS
\* and 0755 otherwise; with a bit outside the six it answers
\* FX_OP_UNSUPPORTED, does not call OpenFile and makes no handle.
C25_OpenFlagsAndMode ==
    (cpc = "returned" /\ cIn.op = "handleOpen" /\ cIn.sess.nfiles <= cIn.sess.maxFiles) =>
        LET pf == cIn.req.pflags
            access == IF HasBit(pf, 1) /\ HasBit(pf, 2) THEN 2
                      ELSE IF HasBit(pf, 2) THEN 1
                      ELSE 0
            flags == access + (IF HasBit(pf, 16) THEN 512 ELSE 0)
                            + (IF HasBit(pf, 8) THEN 64 ELSE 0)
                            + (IF HasBit(pf, 4) THEN 1024 ELSE 0)
                            + (IF HasBit(pf, 32) THEN 128 ELSE 0)
            mode == IF HasBit(cIn.req.attrs.Flags, 4) THEN cIn.req.attrs.Mode % 512 ELSE 493
        IN IF pf >= 64
           THEN /\ cOut.resp.type = "STATUS"
                /\ cOut.resp.code = FX_OP_UNSUPPORTED
                /\ cOut.calls = <<>>
                /\ cOut.nfiles = cIn.sess.nfiles
                /\ cOut.fcounter = cIn.sess.fcounter
           ELSE cOut.calls = <<FsCall("OpenFile", <<cIn.req.path, flags, mode>>)>>

\* An OPEN with READ|WRITE|CREAT|EXCL and the mode 0100644 opened the
\* file read+write, create, exclusive, with the mode 0644, and got a
\* handle.
C25_Witness ==
    /\ cpc = "returned"
    /\ cIn.op = "handleOpen"
    /\ cIn.req.pflags = 43
    /\ cIn.req.attrs = [Flags |-> 4, Mode |-> 33188]
    /\ cOut.calls = <<FsCall("OpenFile", <<"/x", 194, 420>>)>>
    /\ cOut.resp.type = "HANDLE"

\* C26: a READ asking for more than 1048576 bytes is answered with
\* FX_FAILURE and ReadAt is not called; otherwise ReadAt is called once,
\* with a buffer of the length asked for and the offset asked for; when
\* it returned n > 0 bytes the answer is a DATA packet of exactly those n
\* bytes, with or without an error, and when it returned no byte and an
\* error the answer is the status of that error (FX_EOF for io.EOF).
C26_ReadReply ==
    (cpc = "returned" /\ cIn.op = "workerRead") =>
        LET n == Len(cIn.f.data)
        IN IF cIn.req.len > 1048576
           THEN /\ cOut.calls = <<>>
                /\ cOut.resp.type = "STATUS"
                /\ cOut.resp.id = cIn.req.id
                /\ cOut.resp.code = FX_FAILURE
           ELSE /\ cOut.calls = <<FsCall("ReadAt", <<cIn.req.len, cIn.req.offset>>)>>
                /\ n > 0 => cOut.resp = DataResp(cIn.req.id, n, cIn.f.data)
                /\ (n = 0 /\ cIn.f.err # "nil") =>
                     /\ cOut.resp = respondError(cIn.req.id, cIn.f.err)
                     /\ cIn.f.err = "EOF" => cOut.resp.code = FX_EOF

\* ReadAt filled three of the five bytes asked for and returned io.EOF;
\* the answer was a DATA packet of three bytes.
C26_Witness ==
    /\ cpc = "returned"
    /\ cIn.op = "workerRead"
    /\ cIn.req.len = 5
    /\ cIn.f = [data |-> <<7, 8, 9>>, err |-> "EOF"]
    /\ cOut.resp.type = "DATA"
    /\ cOut.resp.length = 3

\* The entries lo..hi of a folder, in listing order.
Entries(lo, hi) == [i \in 1..(hi - lo + 1) |-> lo + i - 1]

\* The number of entries returned by the first k Readdir calls.
RECURSIVE Returned(_, _)
Returned(hist, k) == IF k = 0 THEN 0 ELSE Returned(hist, k - 1) + Len(hist[k].stats)

\* C27: every READDIR answered so far made one Readdir(64) call; when the
\* call returned entries the answer is a NAME packet with the ID of the
\* request holding exactly the next entries of the folder, in listing
\* order, 64 of them or all that were left; when the call returned io.EOF
\* the answer is FX_EOF; and after an FX_EOF answer every later answer on
\* the handle is FX_EOF.
C27_ReaddirBatches ==
    cpc = "open" =>
        /\ cOut.calls = [i \in 1..Len(cOut.hist) |-> FsCall("Readdir", <<64>>)]
        /\ \A i \in 1..Len(cOut.hist) :
             LET h == cOut.hist[i]
                 before == Returned(cOut.hist, i - 1)
                 left == cIn.n - before
             IN /\ h.err = "nil" =>
                     /\ h.resp = NameResp(i, h.stats)
                     /\ Len(h.stats) = (IF left > 64 THEN 64 ELSE left)
                     /\ h.stats = Entries(before + 1, before + Len(h.stats))
                /\ h.err = "EOF" =>
                     (h.resp.type = "STATUS" /\ h.resp.id = i /\ h.resp.code = FX_EOF)
                /\ h.err = "nil" => left > 0
                /\ \A j \in 1..(i - 1) :
                     (cOut.hist[j].resp.type = "STATUS" /\ cOut.hist[j].resp.code = FX_EOF) =>
                         (h.resp.type = "STATUS" /\ h.resp.code = FX_EOF)

\* A folder of 130 entries was read in batches of 64, 64 and 2, and the
\* two requests after that were answered FX_EOF.
C27_Witness ==
    /\ cpc = "open"
    /\ cIn.n = 130
    /\ Len(cOut.hist) = 5
    /\ \A i \in 1..3 : cOut.hist[i].resp.type = "NAME"
    /\ Len(cOut.hist[1].resp.infos) = 64
    /\ Len(cOut.hist[2].resp.infos) = 64
    /\ cOut.hist[3].resp.infos = <<129, 130>>
    /\ cOut.hist[4].resp.code = FX_EOF
    /\ cOut.hist[5].resp.code = FX_EOF

\* C28: handleSetStat calls Chmod, once, exactly when the PERMISSIONS bit
\* is set in the attrs; a failing Chmod is answered with the status of its
\* error; otherwise the answer is FX_OP_UNSUPPORTED when SIZE or ACMODTIME
\* is set, and FX_OK in every other case.  There is one answer in all
\* cases.
C28_SetStatReply ==
    (cpc = "returned" /\ cIn.op = "handleSetStat") =>
        LET fl == cIn.req.attrs.Flags
            perm == HasBit(fl, 4)
            failed == perm /\ cIn.fs.chmodErr # "nil"
        IN /\ CountOp(cOut.calls, "Chmod") = (IF perm THEN 1 ELSE 0)
           /\ Len(cOut.calls) = CountOp(cOut.calls, "Chmod")
           /\ cOut.resp.type = "STATUS"
           /\ cOut.resp.id = cIn.req.id
           /\ failed => cOut.resp = respondError(cIn.req.id, cIn.fs.chmodErr)
           /\ (~failed /\ (HasBit(fl, 1) \/ HasBit(fl, 8))) =>
                cOut.resp.code = FX_OP_UNSUPPORTED
           /\ (~failed /\ ~HasBit(fl, 1) /\ ~HasBit(fl, 8)) => cOut.resp.code = FX_OK

\* A SETSTAT with PERMISSIONS and SIZE: Chmod was called and succeeded,
\* and the answer was FX_OP_UNSUPPORTED.
C28_Witness ==
    /\ cpc = "returned"
    /\ cIn.op = "handleSetStat"
    /\ cIn.req.attrs.Flags = 5
    /\ cIn.fs.chmodErr = "nil"
    /\ CountOp(cOut.calls, "Chmod") = 1
    /\ cOut.resp.code = FX_OP_UNSUPPORTED

\* C29 (as claimed): for every FileInfo, the attributes of the ATTRS
\* reply to a STAT whose Stat succeeded have the flags
\* SIZE|PERMISSIONS|ACMODTIME, the size of the FileInfo, its permission
\* bits with S_IFDIR for a directory and S_IFREG otherwise as the mode,
\* and the low 32 bits of its modification time in Unix seconds (what
\* ModTime() returns when the conversion asks for it) as atime and as
\* mtime, the two being equal; they are written on the wire as flags,
\* size, mode, atime, mtime.
C29_FileInfoAttrs ==
    (cpc = "returned" /\ cIn.op = "handleStat" /\ cIn.fs.statErr = "nil") =>
        LET info == cIn.fs.info
            want == [Flags |-> 13, Size |-> info.size,
                     Mode |-> (info.mode % 512) + (IF info.isDir THEN 16384 ELSE 32768),
                     Atime |-> ModTime(info, 1).lo, Mtime |-> ModTime(info, 1).lo,
                     UID |-> 0, GID |-> 0, Extended |-> <<>>]
        IN /\ cOut.resp.type = "ATTRS"
           /\ cOut.resp.id = cIn.req.id
           /\ cOut.resp.info = want
           /\ MarshalBinary([type |-> "FxpStatResponse", ID |-> cOut.resp.id,
                             Info |-> cOut.resp.info])
                = marshalUint32(<<FXP_ATTRS>>, cIn.req.id) \o FileStatWire(want)

\* The bytes the calls 1..k read, one after the other.
RECURSIVE Consumed(_, _)
Consumed(calls, k) ==
    IF k = 0 THEN <<>> ELSE Consumed(calls, k - 1) \o calls[k].data

\* C30: when the Close that followed the Writes of n bytes in all has
\* returned and no call of the client failed, Close returned nil, the
\* client received one UploadSessionStart, then UploadSessionAppendV2
\* calls, then one UploadSessionFinish; every call read at most chunkSize
\* bytes, the bytes read are the bytes written in their order, the cursor
\* of every append is the number of bytes read by the calls before it, and
\* the cursor of the finish is n.
C30_UploadChunks ==
    (cpc = "upload" /\ cOut.wpc = "closed" /\ cOut.rerr = "nil") =>
        LET calls == cOut.calls
            last == Len(calls)
            n == cOut.sent
        IN /\ cOut.closeRet = "nil"
           /\ ~cOut.wfail
           /\ last >= 2
           /\ calls[1].op = "UploadSessionStart"
           /\ calls[last].op = "UploadSessionFinish"
           /\ \A i \in 2..(last - 1) :
                /\ calls[i].op = "UploadSessionAppendV2"
                /\ calls[i].cursor = <<"session", Len(Consumed(calls, i - 1))>>
           /\ \A i \in 1..last : Len(calls[i].data) <= chunkSize
           /\ Consumed(calls, last) = [i \in 1..n |-> i]
           /\ calls[last].cursor = <<"session", n>>
           /\ calls[last].path = cIn.fpath
           /\ calls[last].data = <<>>

\* An upload of more than two chunks that is not a whole number of chunks,
\* one Write of which crossed the end of a chunk, has been closed.
C30_Witness ==
    /\ cpc = "upload"
    /\ cOut.wpc = "closed"
    /\ cOut.rerr = "nil"
    /\ cOut.sent = 2 * chunkSize + 1
    /\ Len(cOut.calls) = 4
    /\ cOut.calls[2].data = <<4, 5, 6>>
    /\ cOut.calls[3].cursor = <<"session", 6>>
    /\ cOut.calls[4].cursor = <<"session", 7>>
    /\ cOut.closeRet = "nil"

\* C31: on every handle at most one request is being executed: while the
\* worker of a handle has a request (its backend call in progress, or its
\* s.Respond not yet returned), that request is the last one forwarded to
\* the handle and its call has not been made before; the call of every
\* request forwarded earlier has returned and its response was posted
\* (or s.Respond returned because of the shutdown signal); and a request
\* reaches the worker only while it has none.  This holds in every
\* interleaving with the reader, the writer, the dispatcher and the worker
\* of another handle, whose own call is in progress meanwhile.
C31_OneOperationPerHandle ==
    /\ \A n \in Workers :
         LET last == Len(fwd[n])
             busy == wpc[n] \in {"exec", "respond"}
             done == IF busy THEN last - 1 ELSE last
         IN /\ \A k \in 1..done : posted[fwd[n][k]] = 1 \/ closed
            /\ busy =>
                 /\ last >= 1
                 /\ wReq[n].id = fwd[n][last]
                 /\ posted[wReq[n].id] = 0
            /\ wpc[n] = "exec" =>
                 \A i \in DOMAIN fileOps[n] : fileOps[n][i].id # wReq[n].id
            /\ \A i \in DOMAIN fileOps[n] :
                 Cardinality({j \in DOMAIN fileOps[n] : fileOps[n][j].id = fileOps[n][i].id}) = 1
    /\ dpc = "forward" => dReq.id \notin UNION {{fwd[n][k] : k \in DOMAIN fwd[n]} : n \in Workers}

\* While the backend call of request 1 is still in progress on the handle
\* "1", the second request forwarded to the handle "0" is being executed:
\* the call of the first has returned and its response was posted, and
\* the session is up.
C31_Witness ==
    /\ ~closed
    /\ wpc[1] = "exec"
    /\ wReq[1].id = 1
    /\ fileOps[1] = <<>>
    /\ wpc[0] = "exec"
    /\ Len(fwd[0]) = 2
    /\ Len(fileOps[0]) = 1
    /\ fileOps[0][1].id = fwd[0][1]
    /\ posted[fwd[0][1]] = 1

\* C32: while a backend call is in progress on a handle, the dispatcher
\* waits for that worker only in h.reqChan <- req with a request naming
\* that handle.  It takes the next request of the inbox whatever it is,
\* its own backend calls return without waiting for any worker,
\* its s.Respond goes through whenever the outbox has room or the
\* shutdown signal has fired, and its forward to another handle waits for
\* nothing but the worker of that other handle; the calls and responses of
\* the workers of other handles go through in the same way.
C32_StallIsPerHandle ==
    \A s \in Workers :
        wpc[s] = "exec" =>
            /\ (dpc = "select" /\ inbox # <<>>) => ENABLED Dispatch
            /\ dpc = "call" => ENABLED DispatcherCallReturns
            /\ (dpc = "respond" /\ (closed \/ Len(outbox) < OutboxCap)) =>
                  ENABLED DispatcherRespond
            /\ (dpc = "forward" /\ dTo # s) =>
                  (ENABLED DispatcherForward \/ wpc[dTo] \in {"exec", "respond"})
            /\ (dpc = "forward" /\ dTo = s) => dReq.handle = minted[s + 1]
            /\ \A n \in Workers \ {s} :
                 /\ wpc[n] = "exec" => ENABLED WorkerStep(n)
                 /\ (wpc[n] = "respond" /\ (closed \/ Len(outbox) < OutboxCap)) =>
                       ENABLED WorkerRespond(n)

\* The call of a request on the handle "0" is still in progress; the
\* request read after it, on the handle "1", was forwarded, its call has
\* returned and its response is posted.
C32_Witness ==
    /\ ~closed
    /\ wpc[0] = "exec"
    /\ wReq[0].id = MaxReqs - 1
    /\ fwd[1] = <<MaxReqs>>
    /\ Len(fileOps[1]) = 1
    /\ posted[MaxReqs] = 1

\* C33 (as claimed): a STAT of a missing path is answered with
\* FX_NO_SUCH_FILE on the dropbox backend, whose Stat returns
\* os.ErrNotExist, and on the local backend, whose Stat returns a
\* *os.PathError around ENOENT; a STAT the local backend refuses with
\* EACCES is answered with FX_PERMISSION_DENIED.
C33_NotFoundBareOrWrapped ==
    (cpc = "returned" /\ cIn.op = "handleStat" /\ "backend" \in DOMAIN cIn) =>
        /\ cIn.outcome = "missing" =>
              cOut.resp.type = "STATUS" /\ cOut.resp.code = FX_NO_SUCH_FILE
        /\ (cIn.outcome = "denied" /\ cIn.backend = "local") =>
              cOut.resp.type = "STATUS" /\ cOut.resp.code = FX_PERMISSION_DENIED

\* The buffers of the calls 1..k as far as they were accepted, one after
\* the other.
RECURSIVE Accepted(_, _)
Accepted(hist, k) ==
    IF k = 0 THEN <<>>
    ELSE Accepted(hist, k - 1) \o SubSeq(hist[k].b, 1, hist[k].n)

\* C34: on a handle open for writing, a WriteAt whose offset is not the
\* number of bytes accepted by the calls before it returns
\* ErrBadReadWriteOffset and 0, and the Upload is handed nothing; a call
\* accepts bytes only at that offset; writeOffset is the number of bytes
\* accepted so far, and the Upload has taken exactly the accepted bytes in
\* the order of the calls.  (After Close the handle is not open for
\* writing, and a WriteAt at any offset accepts nothing.)
C34_InOrderWrites ==
    (cpc \in {"file", "blocked"} /\ cIn.f.openForWriting /\ ~cIn.f.isDir) =>
        /\ cOut.stream = Accepted(cOut.hist, Len(cOut.hist))
        /\ cOut.f.writeOffset = Len(cOut.stream)
        /\ \A k \in DOMAIN cOut.hist :
             LET c == cOut.hist[k]
             IN /\ c.before = Len(Accepted(cOut.hist, k - 1))
                /\ (c.open /\ c.off # c.before) =>
                      c.n = 0 /\ c.err = "ErrBadReadWriteOffset"
                /\ c.n > 0 => c.open /\ c.off = c.before

\* Two bytes were accepted at offset 0, a write at offset 1 was refused,
\* and a write at offset 2 was accepted.
C34_Witness ==
    /\ cpc = "file"
    /\ cIn.f.openForWriting
    /\ Len(cOut.hist) = 3
    /\ cOut.hist[1].off = 0 /\ cOut.hist[1].n = 2
    /\ cOut.hist[2].off = 1 /\ cOut.hist[2].err = "ErrBadReadWriteOffset"
    /\ cOut.hist[3].off = 2 /\ cOut.hist[3].n = 1
    /\ cOut.stream = <<11, 12, 31>>
    /\ cOut.f.writeOffset = 3

\* The entries the calls 1..k returned, one after the other.
RECURSIVE Listed(_, _)
Listed(hist, k) == IF k = 0 THEN <<>> ELSE Listed(hist, k - 1) \o hist[k].stats

\* C35: on a directory handle the entries the Readdir calls returned are,
\* in call order, the beginning of the listing; a call whose listing
\* failed returns nothing; a call with n > 0 returns min(n, what is left)
\* entries and nil while entries are left, and no entry and io.EOF when
\* none is left; a call with n <= 0 returns all that is left and nil.
\* (A call made after Close returns no entry.)
C35_DbxReaddirBatches ==
    (cpc = "dir" /\ cIn.isDir) =>
        LET all == Flatten(cIn.pages)
        IN \A k \in DOMAIN cOut.hist :
             LET c == cOut.hist[k]
                 before == Len(Listed(cOut.hist, k - 1))
                 left == Len(all) - before
             IN /\ c.stats = SubSeq(all, before + 1, before + Len(c.stats))
                /\ ~c.open => c.stats = <<>>
                /\ c.open => c.err \in {"nil", "EOF", "EIO"}
                /\ c.err = "EIO" => c.stats = <<>> /\ before = 0
                /\ (c.open /\ c.err # "EIO" /\ c.n > 0 /\ left > 0) =>
                      /\ c.err = "nil"
                      /\ Len(c.stats) = IF left < c.n THEN left ELSE c.n
                /\ (c.open /\ c.err # "EIO" /\ c.n > 0 /\ left = 0) =>
                      c.err = "EOF" /\ c.stats = <<>>
                /\ (c.open /\ c.err # "EIO" /\ c.n <= 0) =>
                      c.err = "nil" /\ Len(c.stats) = left

\* A folder of five entries on two pages was read in batches of 3 and 2,
\* and the two calls after that returned io.EOF.
C35_Witness ==
    /\ cpc = "dir"
    /\ cIn.isDir
    /\ Len(cOut.hist) = 4
    /\ cOut.hist[1].stats = <<4, 2, 6>> /\ cOut.hist[1].n = 3
    /\ cOut.hist[2].stats = <<1, 5>> /\ cOut.hist[2].n = 3
    /\ cOut.hist[3].err = "EOF" /\ cOut.hist[3].stats = <<>>
    /\ cOut.hist[4].err = "EOF" /\ cOut.hist[4].stats = <<>>

\* Request i was forwarded to worker n.
ForwardedTo(i, n) == \E k \in DOMAIN fwd[n] : fwd[n][k] = i

\* Request i was answered, or is being answered, by its handler in the
\* dispatcher.
ByDispatcher(i) ==
    /\ i \in taken
    /\ \A n \in Workers : ~ForwardedTo(i, n)
    /\ ~(dpc = "forward" /\ dReq.id = i)

\* The response of request i is in the outbox.
InOutbox(i) == \E k \in DOMAIN outbox : outbox[k].id = i

\* The response of request i was posted and the writer has taken it from
\* the outbox and is done with WritePacket.
Written(i) == posted[i] = 1 /\ ~InOutbox(i) /\ ~(wrpc = "write" /\ wrCur.id = i)

\* The response of request i, posted, is ahead of the posted response of
\* request j on its way to the output stream.
Ahead(i, j) ==
    \/ Written(i)
    \/ wrpc = "write" /\ wrCur.id = i /\ InOutbox(j)
    \/ \E k, l \in DOMAIN outbox : k < l /\ outbox[k].id = i /\ outbox[l].id = j

\* C36: of two requests forwarded to the same worker, and of two requests
\* answered by the dispatcher, the one that arrived later has its
\* response posted only once s.Respond of the earlier one has returned
\* (having posted the response, or given up at the shutdown signal), and
\* the response of the earlier one, if posted, is ahead of it in the
\* outbox, in WritePacket or written.
C36_ResponseOrder ==
    \A i, j \in 1..MaxReqs :
        (/\ i < j
         /\ \/ \E n \in Workers : ForwardedTo(i, n) /\ ForwardedTo(j, n)
            \/ ByDispatcher(i) /\ ByDispatcher(j)
         /\ posted[j] = 1) =>
            /\ posted[i] = 1 \/ closed
            /\ ~InFlight(i)
            /\ posted[i] = 1 => Ahead(i, j)

\* The responses of two requests of one handle are both in the outbox, in
\* the order of the requests.
C36_Witness ==
    /\ Len(outbox) = 2
    /\ outbox[1].id < outbox[2].id
    /\ \E n \in Workers : ForwardedTo(outbox[1].id, n) /\ ForwardedTo(outbox[2].id, n)

\* C37: when the dispatcher takes an OPEN or OPENDIR and its handler goes
\* on to respond with a status (too many open files, unsupported pflags,
\* or the error of the backend's OpenFile or Open), the handle table, the
\* handle counter and the handles issued are as before and no worker was
\* started: neither the step that takes the request and refuses it or
\* enters the backend call, nor the return of a failed backend call, nor
\* the s.Respond that follows changes any of them.
C37_RefusedOpenChangesNothing ==
    [][/\ (/\ TakesFromInbox
           /\ Head(inbox).kind \in {"OPEN", "OPENDIR"}
           /\ (dpc' = "call" \/ dResp'.type = "STATUS")) =>
              UNCHANGED <<files, fcounter, minted, wpc>>
       /\ (/\ dpc = "call"
           /\ dReq.kind \in {"OPEN", "OPENDIR"}
           /\ dpc' = "respond"
           /\ dResp'.type = "STATUS") =>
              UNCHANGED <<files, fcounter, minted, wpc>>
       /\ (/\ dpc = "respond"
           /\ dReq.kind \in {"OPEN", "OPENDIR"}
           /\ dpc' # "respond") =>
              UNCHANGED <<files, fcounter, minted, wpc>>]_vars

\* With one handle open, an OPENDIR whose backend Open failed is being
\* answered with FX_NO_SUCH_FILE: the table holds the one handle, the
\* counter is 1 and only the first worker exists.
C37_Witness ==
    /\ dpc = "respond"
    /\ dReq.kind = "OPENDIR"
    /\ dResp.type = "STATUS"
    /\ dResp.code = FX_NO_SUCH_FILE
    /\ vfsCalls = <<"Open">>
    /\ DOMAIN files = {"0"}
    /\ fcounter = 1
    /\ wpc[1] = "none"

\* C38: a SETSTAT that was answered FX_OP_UNSUPPORTED has called nothing
\* of the backend: no Chmod was made for a request whose attrs select
\* SIZE or ACMODTIME together with PERMISSIONS.
C38_UnsupportedSetStatCallsNothing ==
    (/\ cpc = "returned"
     /\ cIn.op = "handleSetStat"
     /\ cOut.resp.type = "STATUS"
     /\ cOut.resp.code = FX_OP_UNSUPPORTED) =>
        /\ CountOp(cOut.calls, "Chmod") = 0
        /\ cOut.calls = <<>>

\* C39: doWithRetry invokes the operation again, after a sleep, exactly
\* when the message of the operation's error begins with
\* "too_many_write_operations"; when the operation succeeded or failed
\* with any other error, doWithRetry returns that result without another
\* invocation.
C39_RetryIffRateLimited ==
    /\ (cpc = "again" /\ cOut.calls # <<>>) =>
          /\ ~cOut.err.nil
          /\ HasPrefix(cOut.err.msg, TooManyWriteOperations)
    /\ cpc = "returned" =>
          /\ cOut.err.nil \/ ~HasPrefix(cOut.err.msg, TooManyWriteOperations)
          /\ cOut.ret = cOut.err
          /\ cOut.sleeps = Len(cOut.calls) - 1

\* The number of results doUpload has sent on errChan: those in the
\* channel and the one Close received.
Delivered == Len(cOut.errChan) + (IF cOut.closeRet = "none" THEN 0 ELSE 1)

\* C40: doUpload sends exactly one result on errChan on every path: none
\* before it is done, one when it is done, and the channel has room for
\* it whenever doUpload comes to the send; a result that is an error is
\* sent after the read side of the pipe was closed with that error; and
\* what Close returns is that result.  With the goroutines scheduled and
\* the calls of the storage API returning, a blocked Write returns, a
\* Close that waits for the result returns, and doUpload gets past its
\* send, whether the upload succeeds, a call fails, or Cancel is called,
\* and whether Close is called or not.
C40_OneResultNoBlocking ==
    /\ [](cpc = "upload" =>
            /\ Delivered = (IF cOut.dpc = "done" THEN 1 ELSE 0)
            /\ cOut.dpc = "send" => Len(cOut.errChan) < errChanCap
            /\ (cOut.dpc \in {"send", "done"} /\ cOut.sig # "nil") => cOut.rerr = cOut.sig
            /\ (cOut.dpc \notin {"send", "done"}) => cOut.rerr = "nil"
            /\ cOut.closeRet # "none" => cOut.closeRet = cOut.sig)
    /\ (cpc = "upload" /\ cOut.wpc = "writing") ~> (cpc = "upload" /\ cOut.wpc # "writing")
    /\ (cpc = "upload" /\ cOut.wpc = "closing") ~> (cpc = "upload" /\ cOut.wpc = "closed")
    /\ (cpc = "upload" /\ cOut.dpc = "send") ~> (cpc = "upload" /\ cOut.dpc = "done")

\* A Write of two bytes was blocked when Cancel was called and returned an
\* error; the call of the client failed with the error of the pipe, and
\* the Close that followed returned it.
C40_Witness ==
    /\ cpc = "upload"
    /\ cOut.werr = "ErrCanceled"
    /\ cOut.sent = 2
    /\ cOut.wfail
    /\ cOut.rerr = "ErrCanceled"
    /\ cOut.dpc = "done"
    /\ cOut.wpc = "closed"
    /\ cOut.closeRet = "ErrCanceled"
    /\ cOut.errChan = <<>>

====
